---- MODULE Spec2Model ----
(***************************************************************************)
(* Lock manager and run life cycle of syncb.                               *)
(*                                                                         *)
(* The repository holds two iterations of the same program:                *)
(*   "v1"  src/syncb.py         class SyncBidireccional (JSON token)       *)
(*   "v2"  src/python/syncb.py  class SyncB (text token, mtime, signals)   *)
(* Both keep the token at /tmp/syncb.lock.  impl selects the iteration     *)
(* every run of one behaviour executes.                                    *)
(*                                                                         *)
(* A run is a process; its steps are the file-system calls of              *)
(* establecer_lock / eliminar_lock (exists, read, unlink, open, write)     *)
(* interleaved with the steps of the other runs.                           *)
(*                                                                         *)
(* Spec / SeqSpec  the runs and the token file                             *)
(* FairSeqSpec     SeqSpec where a run inside establecer_lock goes on      *)
(* RunSpec         one run alone with its body in detail: checks, item     *)
(*                 loop, secondary phase, symlink phase, summary           *)
(* LinkSpec        the rewriting of a symlink target by capture and        *)
(*                 recreate                                                *)
(* RecSpec         recreate of the records of a metadata file, run twice   *)
(* CapSpec         capture of the symlinks of an item list                 *)
(* OptSpec         the option list of the transfer tool; run_tests, Test 2 *)
(* CmdSpec         the paths a run hands to the tool; run_tests, Test 1    *)
(* ListSpec        the resolution of the item list of a run                *)
(* StatSpec        the statistics of a run and the parsing of the reports  *)
(***************************************************************************)
EXTENDS Integers, Sequences, FiniteSets, TLC

\* ---------------------------------------------------------------- bounds
MaxTime == 2

\* process ids of the runs; 1 is a decimal prefix of 12
Pids == {1, 12}

\* lock_timeout of the configuration, in clock ticks
LOCK_TIMEOUT == 1

Impls == {"v1", "v2"}

VARIABLES
    impl,           \* which iteration of the program is running
    now,            \* time.time()
    lock,           \* the token file: NoFile or a record
    pc,             \* position of each run
    phase,          \* "main", "finally", "h_main", "h_fin"
    lock_acquired,  \* v2: self.lock_acquired
    ret,            \* establecer_lock returned True
    seen,           \* what establecer_lock found (kept until the run moves on)
    rej,            \* the token establecer_lock rejected on (or NoFile)
    hnd,            \* inode of the file opened for writing (-1: none)
    wts,            \* v1: lock_info['timestamp'] built before the open
    exit_code,      \* process exit status (-1: not set)
    how,            \* the exit path taken
    sig,            \* a termination signal was delivered to the run
    transferred,    \* the transfer tool has been invoked
    tmpfile,        \* a registered temporary file of the run exists
    \* --- the body of the run under study (main / sincronizar)
    modo,           \* "subir" or "bajar"
    dry_run,        \* simulate-only mode
    yes,            \* unattended: --yes
    prompts,        \* times the operator was asked to confirm
    sync_crypto,    \* the secondary (Crypto) phase is requested
    items,          \* the item list: what each item is and how the tool behaves
    results,        \* outcome of each item the loop has handled, in order
    checked,        \* the preconditions passed and the operator agreed
    rc,             \* the local exit_code of main / sincronizar
    errores_sincronizacion,  \* the items-failed counter of the statistics
    crypto_res,     \* outcome of sincronizar_crypto ("none": not run)
    links_res,      \* outcome of manejar_enlaces_simbolicos ("none": not run)
    enlaces_errores,\* the symlink-error counter of the statistics
    walked,         \* items whose path the symlink capture walk looked at
    tool_calls,     \* invocations of the transfer tool so far
    summary,        \* mostrar_estadisticas has printed the summary
    \* --- symlink capture and recreate
    lstep,          \* "raw", "captured", "dropped", "recreated"
    raw,            \* os.readlink of the captured link
    local_dir,      \* the local root of the capturing machine
    new_dir,        \* the local root of the recreating machine
    login,          \* the login name on the recreating machine
    ruta,           \* the link's path relative to the local root
    recorded,       \* the portable target written to the metadata file
    recreated,      \* the target of the symlink that recreate made
    \* --- recreate of the symlinks of a metadata file
    rstep,          \* "fetch", "lines", "end", "exit", "done"
    pass,           \* 1: first run of the program, 2: the run after it
    lineas,         \* the records of the metadata file: [ruta, destino]
    louts,          \* what became of each record read so far, in order
    fs,             \* what is at each link path of the local root
    dirs,           \* the parent directories that exist
    faulty,         \* link paths where unlink and symlink raise OSError
    remote_meta,    \* the metadata file exists in the remote root
    local_meta,     \* the local copy of the metadata file exists
    had_meta,       \* the run found or fetched a local copy
    enlaces_creados,    \* the symlinks-created counter of the statistics
    enlaces_existentes, \* the already-correct counter of the statistics
    muts,           \* symlink and unlink calls made by the run
    mkdirs,         \* mkdir calls made by the run
    err1,           \* the first run had a record that raised an error
    \* --- capture of the symlinks of the item list
    elementos,      \* the item list of the upload run
    handled,        \* items the capture loop has gone through
    buffer,         \* the link paths written to the metadata buffer, in order
    uploaded,       \* the buffer was handed to the transfer tool
    \* --- the option list of the transfer tool
    ostep,          \* "args", "built", "t_base", "t_over", "t_del", "t_done"
    overwrite,      \* --overwrite
    delete,         \* --delete
    use_checksum,   \* --checksum
    bw_limit,       \* --bwlimit ("": not given)
    exclusiones,    \* the exclusion patterns of the configuration file
    exclusiones_cli,\* the exclusion patterns of the command line
    built,          \* the flags and the list of the latest build
    prev,           \* the same of the invocation before this one
    opts_base,      \* run_tests, Test 2: list built with every flag off
    opts_overwrite, \* run_tests, Test 2: list built after overwrite = True
    opts_delete,    \* run_tests, Test 2: list built after delete = True
    tests_pasados,  \* run_tests: tests passed
    tests_fallados, \* run_tests: tests failed
    \* --- the paths one run hands to the transfer tool
    mstep,          \* "start", "items", "links", "done", "t_comun", "t_done"
    backup_dir_mode,    \* "comun" or "readonly" (v2: args.backup_dir)
    lista,          \* the item list, each item a string
    cmds,           \* origen and destino of each invocation of the tool
    roots,          \* the remote roots the steps of the run have used
    meta,           \* the remote path of the metadata file, once built
    pcloud_dir_comun,   \* run_tests, Test 1: root found for "comun"
    pcloud_dir_readonly,\* run_tests, Test 1: root found for "readonly"
    \* --- the resolution of the item list
    items_especificos,  \* the items given on the command line
    hostname,       \* platform.node()
    host_lists,     \* the lists the configuration registers for hosts
    default_list,   \* the default list of the configuration
    resolved,       \* the list the run works on, once looked up
    \* --- the statistics of one run
    stdout,         \* what the transfer tool printed, as a sequence of pieces
    calls,          \* steps of the run that have touched the statistics
    elementos_procesados,   \* the items-processed counter
    archivos_transferidos,  \* the files-transferred counter
    archivos_borrados,      \* the files-deleted counter
    enlaces_detectados,     \* the symlinks-detected counter
    creados,        \* analizar_salida_rsync: created files of the last report
    actualizados,   \* analizar_salida_rsync: updated files of the last report
    \* --- the secondary (Crypto) phase of one run
    crypto_cmds     \* origen and destino of each invocation of the phase

\* the variables of the run body
bvars == <<modo, dry_run, yes, prompts, sync_crypto, items, results,
           checked, rc,
           errores_sincronizacion, crypto_res, links_res, enlaces_errores,
           walked, tool_calls, summary>>

\* the variables of the symlink codec
lvars == <<lstep, raw, local_dir, new_dir, login, ruta, recorded, recreated>>

\* the variables of the lock and of the exit path
kvars == <<impl, now, lock, pc, phase, lock_acquired, ret, seen, rej, hnd,
           wts, exit_code, how, sig, transferred, tmpfile>>

\* the variables of the recreate of a metadata file
rvars == <<rstep, pass, lineas, louts, fs, dirs, faulty, remote_meta,
           local_meta, had_meta, enlaces_creados, enlaces_existentes, muts,
           mkdirs, err1>>

\* the variables of the capture of the symlinks of the item list
cvars == <<elementos, handled, buffer, uploaded>>

\* the variables of the option list of the transfer tool
ovars == <<ostep, overwrite, delete, use_checksum, bw_limit, exclusiones,
           exclusiones_cli, built, prev, opts_base, opts_overwrite,
           opts_delete, tests_pasados, tests_fallados>>

\* the variables of the paths one run hands to the transfer tool
mvars == <<mstep, backup_dir_mode, lista, cmds, roots, meta, pcloud_dir_comun,
           pcloud_dir_readonly>>

\* the variables of the resolution of the item list
gvars == <<items_especificos, hostname, host_lists, default_list, resolved>>

\* the variables of the statistics of one run
tvars == <<stdout, calls, elementos_procesados, archivos_transferidos,
           archivos_borrados, enlaces_detectados, creados, actualizados>>

\* the variables of the secondary phase
yvars == <<crypto_cmds>>

\* the variables no step of the lock, of the run body or of the codec touches
svars == <<rvars, cvars, ovars, mvars, gvars, tvars, yvars>>

vars == <<kvars, bvars, lvars, svars>>

\* ------------------------------------------------------------ token file
NoFile == [ino |-> -1, pid |-> -1, ts |-> -1, body |-> "none"]

\* a file whose content does not parse (also: opened for writing, still empty)
CorruptFile(i, t) == [ino |-> i, pid |-> 0, ts |-> t, body |-> "corrupt"]

\* a parseable record; pid 0 stands for a record without the pid field
Token(i, p, t) == [ino |-> i, pid |-> p, ts |-> t, body |-> "ok"]

Exists(f) == f.body # "none"

\* the token on disk is a readable record naming p as owner
OwnToken(p) == lock.body = "ok" /\ lock.pid = p

\* -------------------------------------------------------------- helpers
AcqSteps == {"a_exists", "a_read", "a_unlink", "a_unlink_c", "a_open",
             "a_dump", "a_flag"}
RelSteps == {"r_start", "r_exists", "r_read", "r_unlink", "r_unlink_f"}
BodySteps == {"body", "transfer"}

\* os.kill(pid, 0): the process exists
Alive(p) == p \in Pids /\ pc[p] \notin {"idle", "done", "dead"}

\* str(n) as a sequence of decimal digits
RECURSIVE Digits(_)
Digits(n) == IF n < 10 THEN <<n>> ELSE Append(Digits(n \div 10), n % 10)

IsPrefix(s, t) == Len(s) <= Len(t) /\ SubSeq(t, 1, Len(s)) = s

\* the subtraction reversed
IsStaleReversed(f, t) == f.ts - t > LOCK_TIMEOUT

\* lock_age > lock_timeout
IsStale(f, t) == t - f.ts > LOCK_TIMEOUT

\* v1: lock_info.get('pid') == os.getpid()
OwnsV1(p, f) == f.body = "ok" /\ f.pid = p

\* v2: f"PID: {os.getpid()}" in first_line
OwnsV2(p, f) == f.body = "ok" /\ f.pid > 0 /\ IsPrefix(Digits(p), Digits(f.pid))

\* what the token looked at is, for the history variable seen: missing,
\* unparseable, older than lock_timeout, without pid, owner alive / dead
Classify(f, t) ==
    IF ~Exists(f) THEN "gone"
    ELSE IF f.body = "corrupt" THEN "corrupt"
    ELSE IF t - f.ts > LOCK_TIMEOUT THEN "stale"
    ELSE IF f.pid = 0 THEN "nopid"
    ELSE IF Alive(f.pid) THEN "live"
    ELSE "dead"

\* the probe's result ignored: a live owner's token is removed as well
AcqDecisionV1NoProbe(f, t) ==
    IF ~Exists(f) \/ f.body = "corrupt" THEN "a_unlink_c"
    ELSE IF IsStale(f, t) THEN "a_unlink"
    ELSE IF f.pid = 0 THEN "raise"
    ELSE "a_unlink"

\* what establecer_lock does with the token it looks at (v1: json.load, age,
\* os.kill probe); "raise" is the TypeError of os.kill(None, 0)
AcqDecisionV1(f, t) ==
    IF ~Exists(f) \/ f.body = "corrupt" THEN "a_unlink_c"
    ELSE IF IsStale(f, t) THEN "a_unlink"
    ELSE IF f.pid = 0 THEN "raise"
    ELSE IF Alive(f.pid) THEN "reject"
    ELSE "a_unlink"

\* the age ignored: a token that is there always rejects
AcqDecisionV2NoAge(f, t) == IF ~Exists(f) THEN "a_unlink_c" ELSE "reject"

\* v2: stat().st_mtime and age only; the content is read for the log message
AcqDecisionV2(f, t) ==
    IF ~Exists(f) THEN "a_unlink_c"
    ELSE IF IsStale(f, t) THEN "a_unlink"
    ELSE "reject"

AcqDecision(f, t) == IF impl = "v1" THEN AcqDecisionV1(f, t) ELSE AcqDecisionV2(f, t)

\* what eliminar_lock does after reading the token
RelDecisionV1(p, f) ==
    IF ~Exists(f) \/ f.body = "corrupt" THEN "r_unlink_f"
    ELSE IF OwnsV1(p, f) THEN "r_unlink"
    ELSE "end"

RelDecisionV2(p, f) ==
    IF Exists(f) /\ OwnsV2(p, f) THEN "r_unlink" ELSE "end"

RelDecision(p, f) == IF impl = "v1" THEN RelDecisionV1(p, f) ELSE RelDecisionV2(p, f)

\* no finally block: the run exits without cleanup
NoCleanupEntry == "done"

\* first step of the cleanup that the finally block runs
\* (v1: eliminar_lock first; v2: cleanup() removes temporaries first)
CleanupEntry == IF impl = "v1" THEN "r_exists" ELSE "c_temp"

\* where a run goes when eliminar_lock returns
AfterRelPc(p) ==
    IF impl = "v1" THEN "c_temp"
    ELSE IF phase[p] = "h_main" THEN "c_temp" ELSE "done"

AfterRelPhase(p) == IF phase[p] = "h_main" THEN "finally" ELSE phase[p]

\* sys.exit(1) at the end of the v2 signal handler
AfterRelCode(p) == IF phase[p] \in {"h_main", "h_fin"} THEN 1 ELSE exit_code[p]

\* no run body in progress: the fields as __init__ leaves them
BodyIdle ==
    /\ modo = "subir"
    /\ dry_run = FALSE
    /\ yes = FALSE
    /\ prompts = 0
    /\ sync_crypto = FALSE
    /\ items = <<>>
    /\ results = <<>>
    /\ checked = FALSE
    /\ rc = 0
    /\ errores_sincronizacion = 0
    /\ crypto_res = "none"
    /\ links_res = "none"
    /\ enlaces_errores = 0
    /\ walked = {}
    /\ tool_calls = 0
    /\ summary = FALSE

\* no symlink being captured
LinkIdle ==
    /\ lstep = "raw"
    /\ raw = <<>>
    /\ local_dir = <<>>
    /\ new_dir = <<>>
    /\ login = <<>>
    /\ ruta = <<>>
    /\ recorded = <<>>
    /\ recreated = [at |-> <<>>, target |-> <<>>]

\* no metadata file being recreated
RecIdle ==
    /\ rstep = "done"
    /\ pass = 1
    /\ lineas = <<>>
    /\ louts = <<>>
    /\ fs = <<>>
    /\ dirs = {}
    /\ faulty = {}
    /\ remote_meta = FALSE
    /\ local_meta = FALSE
    /\ had_meta = FALSE
    /\ enlaces_creados = 0
    /\ enlaces_existentes = 0
    /\ muts = 0
    /\ mkdirs = 0
    /\ err1 = FALSE

\* no item list being captured
CapIdle ==
    /\ elementos = <<>>
    /\ handled = 0
    /\ buffer = <<>>
    /\ uploaded = FALSE

\* no build yet
NoBuild == [flags |-> <<>>, opts |-> <<>>]

\* no option list being built
OptIdle ==
    /\ ostep = "args"
    /\ overwrite = FALSE
    /\ delete = FALSE
    /\ use_checksum = FALSE
    /\ bw_limit = ""
    /\ exclusiones = <<>>
    /\ exclusiones_cli = <<>>
    /\ built = NoBuild
    /\ prev = NoBuild
    /\ opts_base = <<>>
    /\ opts_overwrite = <<>>
    /\ opts_delete = <<>>
    /\ tests_pasados = 0
    /\ tests_fallados = 0

\* no path being built
CmdIdle ==
    /\ mstep = "start"
    /\ backup_dir_mode = "comun"
    /\ lista = <<>>
    /\ cmds = <<>>
    /\ roots = {}
    /\ meta = <<>>
    /\ pcloud_dir_comun = <<>>
    /\ pcloud_dir_readonly = <<>>

\* a list the configuration does not have
NoList == [has |-> FALSE, lista |-> <<>>]

\* no list looked up
NotResolved == [done |-> FALSE, ok |-> FALSE, lista |-> <<>>]

\* no item list being resolved
ListIdle ==
    /\ items_especificos = <<>>
    /\ hostname = ""
    /\ host_lists = <<>>
    /\ default_list = NoList
    /\ resolved = NotResolved

\* no statistics being kept
StatIdle ==
    /\ stdout = <<>>
    /\ calls = 0
    /\ elementos_procesados = 0
    /\ archivos_transferidos = 0
    /\ archivos_borrados = 0
    /\ enlaces_detectados = 0
    /\ creados = 0
    /\ actualizados = 0

\* no secondary phase under way
CryptoIdle == crypto_cmds = <<>>

SideIdle == RecIdle /\ CapIdle /\ OptIdle /\ CmdIdle /\ ListIdle /\ StatIdle /\ CryptoIdle

\* the runs before they start, and the token file they find
LockInit ==
    /\ impl \in Impls
    /\ now = 0
    /\ lock \in {NoFile, CorruptFile(0, 0), Token(0, 0, 0)}
    /\ pc = [p \in Pids |-> "idle"]
    /\ phase = [p \in Pids |-> "main"]
    /\ lock_acquired = [p \in Pids |-> FALSE]
    /\ ret = [p \in Pids |-> FALSE]
    /\ seen = [p \in Pids |-> "none"]
    /\ rej = [p \in Pids |-> NoFile]
    /\ hnd = [p \in Pids |-> -1]
    /\ wts = [p \in Pids |-> 0]
    /\ exit_code = [p \in Pids |-> -1]
    /\ how = [p \in Pids |-> "none"]
    /\ sig = [p \in Pids |-> FALSE]
    /\ transferred = [p \in Pids |-> FALSE]
    /\ tmpfile = [p \in Pids |-> FALSE]

Init == LockInit /\ BodyIdle /\ LinkIdle /\ SideIdle

\* the clock advances
Tick ==
    /\ now < MaxTime
    /\ now' = now + 1
    /\ UNCHANGED <<impl, lock, pc, phase, lock_acquired, ret, seen, rej, hnd,
                   wts, exit_code, how, sig, transferred, tmpfile>>
    /\ UNCHANGED <<bvars, lvars, svars>>

\* ------------------------------------------------------- start of a run
\* parse_arguments and the banner succeed; main reaches establecer_lock
Start(p) ==
    /\ pc[p] = "idle"
    /\ pc' = [pc EXCEPT ![p] = "a_exists"]
    /\ UNCHANGED <<impl, now, lock, phase, lock_acquired, ret, seen, rej, hnd,
                   wts, exit_code, how, sig, transferred, tmpfile>>
    /\ UNCHANGED <<bvars, lvars, svars>>

\* --force-unlock: parse_arguments deletes the token and calls sys.exit(0)
\* inside the try block, so the finally block still runs
ForceUnlock(p) ==
    /\ pc[p] = "idle"
    /\ lock' = NoFile
    /\ pc' = [pc EXCEPT ![p] = CleanupEntry]
    /\ phase' = [phase EXCEPT ![p] = "finally"]
    /\ exit_code' = [exit_code EXCEPT ![p] = 0]
    /\ how' = [how EXCEPT ![p] = "force"]
    /\ UNCHANGED <<impl, now, lock_acquired, ret, seen, rej, hnd, wts, sig,
                   transferred, tmpfile>>
    /\ UNCHANGED <<bvars, lvars, svars>>

\* parse_arguments / verificar_dependencias leave with sys.exit before the
\* lock is attempted
ArgExit(p) ==
    /\ pc[p] = "idle"
    /\ pc' = [pc EXCEPT ![p] = CleanupEntry]
    /\ phase' = [phase EXCEPT ![p] = "finally"]
    /\ exit_code' = [exit_code EXCEPT ![p] = 1]
    /\ how' = [how EXCEPT ![p] = "args"]
    /\ UNCHANGED <<impl, now, lock, lock_acquired, ret, seen, rej, hnd, wts,
                   sig, transferred, tmpfile>>
    /\ UNCHANGED <<bvars, lvars, svars>>

\* ------------------------------------------------------ establecer_lock
\* if self.LOCK_FILE.exists():
A_exists(p) ==
    /\ pc[p] = "a_exists"
    /\ pc' = [pc EXCEPT ![p] = IF Exists(lock) THEN "a_read" ELSE "a_open"]
    /\ seen' = [seen EXCEPT ![p] = IF Exists(lock) THEN @ ELSE "nofile"]
    /\ UNCHANGED <<impl, now, lock, phase, lock_acquired, ret, rej, hnd, wts,
                   exit_code, how, sig, transferred, tmpfile>>
    /\ UNCHANGED <<bvars, lvars, svars>>

\* read the token, compute its age, probe the owner; a rejection or an
\* uncaught exception leaves main with status 1 through the finally block
A_read(p) ==
    /\ pc[p] = "a_read"
    /\ LET d == AcqDecision(lock, now) IN
         IF d \in {"a_unlink", "a_unlink_c"}
         THEN /\ pc' = [pc EXCEPT ![p] = d]
              /\ seen' = [seen EXCEPT ![p] = Classify(lock, now)]
              /\ UNCHANGED <<phase, exit_code, how, rej>>
         ELSE /\ pc' = [pc EXCEPT ![p] = CleanupEntry]
              /\ seen' = [seen EXCEPT ![p] = Classify(lock, now)]
              /\ phase' = [phase EXCEPT ![p] = "finally"]
              /\ exit_code' = [exit_code EXCEPT ![p] = 1]
              /\ how' = [how EXCEPT ![p] = IF d = "reject" THEN "locked" ELSE "exception"]
              /\ rej' = [rej EXCEPT ![p] = IF d = "reject" THEN lock ELSE @]
    /\ UNCHANGED <<impl, now, lock, lock_acquired, ret, hnd, wts, sig,
                   transferred, tmpfile>>
    /\ UNCHANGED <<bvars, lvars, svars>>

\* unlink of a stale or abandoned token; FileNotFoundError is an OSError and
\* lands in the except clause, which unlinks again
A_unlink(p) ==
    /\ pc[p] = "a_unlink"
    /\ IF Exists(lock)
       THEN /\ lock' = NoFile
            /\ pc' = [pc EXCEPT ![p] = "a_open"]
       ELSE /\ lock' = lock
            /\ pc' = [pc EXCEPT ![p] = "a_unlink_c"]
    /\ UNCHANGED <<impl, now, phase, lock_acquired, ret, seen, rej, hnd, wts,
                   exit_code, how, sig, transferred, tmpfile>>
    /\ UNCHANGED <<bvars, lvars, svars>>

\* unlink in the except clause; here FileNotFoundError is not caught
A_unlink_c(p) ==
    /\ pc[p] = "a_unlink_c"
    /\ IF Exists(lock)
       THEN /\ lock' = NoFile
            /\ pc' = [pc EXCEPT ![p] = "a_open"]
            /\ UNCHANGED <<phase, exit_code, how>>
       ELSE /\ lock' = lock
            /\ pc' = [pc EXCEPT ![p] = CleanupEntry]
            /\ phase' = [phase EXCEPT ![p] = "finally"]
            /\ exit_code' = [exit_code EXCEPT ![p] = 1]
            /\ how' = [how EXCEPT ![p] = "exception"]
    /\ UNCHANGED <<impl, now, lock_acquired, ret, seen, rej, hnd, wts, sig,
                   transferred, tmpfile>>
    /\ UNCHANGED <<bvars, lvars, svars>>

\* open(lock_file, 'w'): creates the file, or truncates the one that is there
A_open(p) ==
    /\ pc[p] = "a_open"
    /\ lock' = CorruptFile(IF Exists(lock) THEN lock.ino ELSE p, now)
    /\ hnd' = [hnd EXCEPT ![p] = IF Exists(lock) THEN lock.ino ELSE p]
    /\ wts' = [wts EXCEPT ![p] = now]
    /\ pc' = [pc EXCEPT ![p] = "a_dump"]
    /\ UNCHANGED <<impl, now, phase, lock_acquired, ret, seen, rej,
                   exit_code, how, sig, transferred, tmpfile>>
    /\ UNCHANGED <<bvars, lvars, svars>>

\* the record is written through the open handle and the file closed; a file
\* unlinked meanwhile takes the data with it
A_dump(p) ==
    /\ pc[p] = "a_dump"
    /\ lock' = IF Exists(lock) /\ lock.ino = hnd[p]
               THEN Token(lock.ino, p, IF impl = "v1" THEN wts[p] ELSE now)
               ELSE lock
    /\ hnd' = [hnd EXCEPT ![p] = -1]
    /\ wts' = [wts EXCEPT ![p] = 0]
    /\ IF impl = "v1"
       THEN /\ pc' = [pc EXCEPT ![p] = "body"]
            /\ ret' = [ret EXCEPT ![p] = TRUE]
       ELSE /\ pc' = [pc EXCEPT ![p] = "a_flag"]
            /\ UNCHANGED ret
    /\ UNCHANGED <<impl, now, phase, lock_acquired, seen, rej,
                   exit_code, how, sig, transferred, tmpfile>>
    /\ UNCHANGED <<bvars, lvars, svars>>

\* v2: self.lock_acquired = True; return True
A_flag(p) ==
    /\ pc[p] = "a_flag"
    /\ lock_acquired' = [lock_acquired EXCEPT ![p] = TRUE]
    /\ ret' = [ret EXCEPT ![p] = TRUE]
    /\ pc' = [pc EXCEPT ![p] = "body"]
    /\ UNCHANGED <<impl, now, lock, phase, seen, rej, hnd, wts, exit_code,
                   how, sig, transferred, tmpfile>>
    /\ UNCHANGED <<bvars, lvars, svars>>


\* ------------------------------------------------------- body of a run
\* the exit paths between the lock and the first transfer: a precondition
\* fails, the operator declines, v2 finds no item list, something raises
BodyOutcomes ==
    {"proceed", "precond", "declined", "exception"}
        \cup (IF impl = "v2" THEN {"nolist"} ELSE {})

Body(p) ==
    /\ pc[p] = "body"
    /\ \E o \in BodyOutcomes :
         IF o = "proceed"
         THEN /\ pc' = [pc EXCEPT ![p] = "transfer"]
              /\ UNCHANGED <<phase, exit_code, how>>
         ELSE /\ pc' = [pc EXCEPT ![p] = CleanupEntry]
              /\ phase' = [phase EXCEPT ![p] = "finally"]
              /\ exit_code' = [exit_code EXCEPT ![p] = IF o = "declined" THEN 0 ELSE 1]
              /\ how' = [how EXCEPT ![p] = o]
    /\ seen' = [seen EXCEPT ![p] = "none"]
    /\ UNCHANGED <<impl, now, lock, lock_acquired, ret, rej, hnd, wts,
                   sig, transferred, tmpfile>>
    /\ UNCHANGED <<bvars, lvars, svars>>

\* procesar_elementos and the phases after it, up to the return of main / run
Transfer(p) ==
    /\ pc[p] = "transfer"
    /\ transferred' = [transferred EXCEPT ![p] = TRUE]
    /\ tmpfile' = [tmpfile EXCEPT ![p] = TRUE]
    /\ \E c \in {0, 1} : exit_code' = [exit_code EXCEPT ![p] = c]
    /\ how' = [how EXCEPT ![p] = "normal"]
    /\ phase' = [phase EXCEPT ![p] = "finally"]
    /\ pc' = [pc EXCEPT ![p] = CleanupEntry]
    /\ UNCHANGED <<impl, now, lock, lock_acquired, ret, seen, rej, hnd, wts, sig>>
    /\ UNCHANGED <<bvars, lvars, svars>>

\* ------------------------------------------------------------- cleanup
\* removal of the registered temporary files
C_temp(p) ==
    /\ pc[p] = "c_temp"
    /\ tmpfile' = [tmpfile EXCEPT ![p] = FALSE]
    /\ pc' = [pc EXCEPT ![p] = IF impl = "v1" THEN "done" ELSE "r_start"]
    /\ UNCHANGED <<impl, now, lock, phase, lock_acquired, ret, seen, rej, hnd,
                   wts, exit_code, how, sig, transferred>>
    /\ UNCHANGED <<bvars, lvars, svars>>

\* v2: if self.lock_acquired:
R_start(p) ==
    /\ pc[p] = "r_start"
    /\ IF lock_acquired[p]
       THEN /\ pc' = [pc EXCEPT ![p] = "r_exists"]
            /\ UNCHANGED <<phase, exit_code>>
       ELSE /\ pc' = [pc EXCEPT ![p] = AfterRelPc(p)]
            /\ phase' = [phase EXCEPT ![p] = AfterRelPhase(p)]
            /\ exit_code' = [exit_code EXCEPT ![p] = AfterRelCode(p)]
    /\ UNCHANGED <<impl, now, lock, lock_acquired, ret, seen, rej, hnd, wts,
                   how, sig, transferred, tmpfile>>
    /\ UNCHANGED <<bvars, lvars, svars>>

\* if lock_file.exists():
R_exists(p) ==
    /\ pc[p] = "r_exists"
    /\ IF Exists(lock)
       THEN /\ pc' = [pc EXCEPT ![p] = "r_read"]
            /\ UNCHANGED <<phase, exit_code>>
       ELSE /\ pc' = [pc EXCEPT ![p] = AfterRelPc(p)]
            /\ phase' = [phase EXCEPT ![p] = AfterRelPhase(p)]
            /\ exit_code' = [exit_code EXCEPT ![p] = AfterRelCode(p)]
    /\ UNCHANGED <<impl, now, lock, lock_acquired, ret, seen, rej, hnd, wts,
                   how, sig, transferred, tmpfile>>
    /\ UNCHANGED <<bvars, lvars, svars>>

\* read the token and compare its owner with os.getpid()
R_read(p) ==
    /\ pc[p] = "r_read"
    /\ LET d == RelDecision(p, lock) IN
         IF d = "end"
         THEN /\ pc' = [pc EXCEPT ![p] = AfterRelPc(p)]
              /\ phase' = [phase EXCEPT ![p] = AfterRelPhase(p)]
              /\ exit_code' = [exit_code EXCEPT ![p] = AfterRelCode(p)]
         ELSE /\ pc' = [pc EXCEPT ![p] = d]
              /\ UNCHANGED <<phase, exit_code>>
    /\ UNCHANGED <<impl, now, lock, lock_acquired, ret, seen, rej, hnd, wts,
                   how, sig, transferred, tmpfile>>
    /\ UNCHANGED <<bvars, lvars, svars>>

\* unlink after the owner matched.  v1: FileNotFoundError lands in the
\* except clause (forced unlink); v2: except OSError: pass
R_unlink(p) ==
    /\ pc[p] = "r_unlink"
    /\ IF ~Exists(lock) /\ impl = "v1"
       THEN /\ pc' = [pc EXCEPT ![p] = "r_unlink_f"]
            /\ UNCHANGED <<lock, lock_acquired, phase, exit_code>>
       ELSE /\ lock' = NoFile
            /\ lock_acquired' = [lock_acquired EXCEPT ![p] = IF Exists(lock) THEN FALSE ELSE @]
            /\ pc' = [pc EXCEPT ![p] = AfterRelPc(p)]
            /\ phase' = [phase EXCEPT ![p] = AfterRelPhase(p)]
            /\ exit_code' = [exit_code EXCEPT ![p] = AfterRelCode(p)]
    /\ UNCHANGED <<impl, now, ret, seen, rej, hnd, wts, how, sig,
                   transferred, tmpfile>>
    /\ UNCHANGED <<bvars, lvars, svars>>

\* v1: unlink of a token that could not be read; a FileNotFoundError here
\* leaves the finally block, the interpreter exits and atexit removes the
\* temporaries
R_unlink_f(p) ==
    /\ pc[p] = "r_unlink_f"
    /\ IF Exists(lock)
       THEN /\ lock' = NoFile
            /\ pc' = [pc EXCEPT ![p] = AfterRelPc(p)]
            /\ UNCHANGED <<exit_code, tmpfile>>
       ELSE /\ lock' = lock
            /\ pc' = [pc EXCEPT ![p] = "done"]
            /\ exit_code' = [exit_code EXCEPT ![p] = 1]
            /\ tmpfile' = [tmpfile EXCEPT ![p] = FALSE]
    /\ UNCHANGED <<impl, now, phase, lock_acquired, ret, seen, rej, hnd, wts,
                   how, sig, transferred>>
    /\ UNCHANGED <<bvars, lvars, svars>>

\* ------------------------------------------------------------- signals
Signals == {"INT", "TERM"}

\* v2 installs signal_handler for both signals: cleanup(), then sys.exit(1),
\* whose SystemExit runs the finally block when it interrupted the try body.
\* v1 installs no handler: SIGINT raises KeyboardInterrupt (caught in the try
\* body, not in the finally block), SIGTERM kills the process
Signal(p, s) ==
    /\ pc[p] \notin {"idle", "done", "dead"}
    /\ ~sig[p]
    /\ sig' = [sig EXCEPT ![p] = TRUE]
    /\ how' = [how EXCEPT ![p] = "signal"]
    /\ hnd' = [hnd EXCEPT ![p] = -1]
    /\ wts' = [wts EXCEPT ![p] = 0]
    /\ seen' = [seen EXCEPT ![p] = "none"]
    /\ IF impl = "v2"
       THEN /\ phase' = [phase EXCEPT ![p] = IF @ = "main" THEN "h_main" ELSE "h_fin"]
            /\ pc' = [pc EXCEPT ![p] = "c_temp"]
            /\ UNCHANGED <<exit_code, tmpfile>>
       ELSE IF s = "INT" /\ phase[p] = "main"
       THEN /\ phase' = [phase EXCEPT ![p] = "finally"]
            /\ pc' = [pc EXCEPT ![p] = "r_exists"]
            /\ exit_code' = [exit_code EXCEPT ![p] = 1]
            /\ UNCHANGED tmpfile
       ELSE /\ pc' = [pc EXCEPT ![p] = "done"]
            /\ exit_code' = [exit_code EXCEPT ![p] = IF s = "INT" THEN 1 ELSE 143]
            /\ tmpfile' = [tmpfile EXCEPT ![p] = IF s = "INT" THEN FALSE ELSE @]
            /\ UNCHANGED phase
    /\ UNCHANGED <<impl, now, lock, lock_acquired, ret, rej, transferred>>
    /\ UNCHANGED <<bvars, lvars, svars>>

\* the process is killed without any cleanup (SIGKILL, power loss); what it
\* held in memory is gone
Crash(p) ==
    /\ pc[p] \notin {"idle", "done", "dead"}
    /\ pc' = [pc EXCEPT ![p] = "dead"]
    /\ exit_code' = [exit_code EXCEPT ![p] = 137]
    /\ how' = [how EXCEPT ![p] = "crash"]
    /\ phase' = [phase EXCEPT ![p] = "main"]
    /\ lock_acquired' = [lock_acquired EXCEPT ![p] = FALSE]
    /\ ret' = [ret EXCEPT ![p] = FALSE]
    /\ seen' = [seen EXCEPT ![p] = "none"]
    /\ rej' = [rej EXCEPT ![p] = NoFile]
    /\ hnd' = [hnd EXCEPT ![p] = -1]
    /\ wts' = [wts EXCEPT ![p] = 0]
    /\ sig' = [sig EXCEPT ![p] = FALSE]
    /\ transferred' = [transferred EXCEPT ![p] = FALSE]
    /\ UNCHANGED <<impl, now, lock, tmpfile>>
    /\ UNCHANGED <<bvars, lvars, svars>>

\* ----------------------------------------------------- specifications
RunStep(p) ==
    \/ Start(p)
    \/ ForceUnlock(p)
    \/ ArgExit(p)
    \/ A_exists(p)
    \/ A_read(p)
    \/ A_unlink(p)
    \/ A_unlink_c(p)
    \/ A_open(p)
    \/ A_dump(p)
    \/ A_flag(p)
    \/ Body(p)
    \/ Transfer(p)
    \/ C_temp(p)
    \/ R_start(p)
    \/ R_exists(p)
    \/ R_read(p)
    \/ R_unlink(p)
    \/ R_unlink_f(p)
    \/ \E s \in Signals : Signal(p, s)
    \/ Crash(p)

Next ==
    \/ Tick
    \/ \E p \in Pids : RunStep(p)

Spec == Init /\ [][Next]_vars

\* the same runs when the lock operations of different runs do not overlap:
\* a run takes a step only while no other run is inside establecer_lock,
\* eliminar_lock or cleanup
MidOp == AcqSteps \cup RelSteps \cup {"c_temp"}

Quiet(p) == \A q \in Pids \ {p} : pc[q] \notin MidOp

SeqStep(p) ==
    \/ Quiet(p) /\ Start(p)
    \/ Quiet(p) /\ ForceUnlock(p)
    \/ Quiet(p) /\ ArgExit(p)
    \/ Quiet(p) /\ A_exists(p)
    \/ Quiet(p) /\ A_read(p)
    \/ Quiet(p) /\ A_unlink(p)
    \/ Quiet(p) /\ A_unlink_c(p)
    \/ Quiet(p) /\ A_open(p)
    \/ Quiet(p) /\ A_dump(p)
    \/ Quiet(p) /\ A_flag(p)
    \/ Quiet(p) /\ Body(p)
    \/ Quiet(p) /\ Transfer(p)
    \/ Quiet(p) /\ C_temp(p)
    \/ Quiet(p) /\ R_start(p)
    \/ Quiet(p) /\ R_exists(p)
    \/ Quiet(p) /\ R_read(p)
    \/ Quiet(p) /\ R_unlink(p)
    \/ Quiet(p) /\ R_unlink_f(p)
    \/ \E s \in Signals : Quiet(p) /\ Signal(p, s)
    \/ Quiet(p) /\ Crash(p)

NextSeq ==
    \/ Tick
    \/ \E p \in Pids : SeqStep(p)

SeqSpec == Init /\ [][NextSeq]_vars

\* a run that is inside establecer_lock and is not killed goes on with it
AcqStep(p) ==
    \/ A_exists(p)
    \/ A_read(p)
    \/ A_unlink(p)
    \/ A_unlink_c(p)
    \/ A_open(p)
    \/ A_dump(p)
    \/ A_flag(p)

FairSeqSpec == SeqSpec /\ \A p \in Pids : WF_vars(Quiet(p) /\ AcqStep(p))

\* ------------------------------------------------- the body of one run
\* number of items of the list
MaxItems == 3

\* the run under study
Runner == 1

\* an item of the list: bad -- the string contains '..' or starts with '/';
\* src -- the source path exists; tool -- what the transfer tool does when
\* it is invoked on it ("hang": the subprocess never exits on its own)
Good     == [bad |-> FALSE, src |-> TRUE,  tool |-> "ok"]
Missing  == [bad |-> FALSE, src |-> FALSE, tool |-> "ok"]
Failing  == [bad |-> FALSE, src |-> TRUE,  tool |-> "fail"]
Hanging  == [bad |-> FALSE, src |-> TRUE,  tool |-> "hang"]
Escaping == [bad |-> TRUE,  src |-> TRUE,  tool |-> "ok"]

ItemKinds == {Good, Missing, Failing, Hanging, Escaping}

ToolOutcomes == {"ok", "fail", "hang"}

\* subprocess.run(cmd, timeout=t): what the caller sees; without a timeout
\* a subprocess that never exits blocks the caller for ever
RunTool(tool, timed) ==
    IF tool = "hang" THEN (IF timed THEN "timeout" ELSE "hung") ELSE tool

\* v1 sincronizar_elemento: no check of the item string; a missing source
\* and a failed simulation return False without counting
ElementoV1(it) ==
    IF ~it.src THEN [res |-> "missing", inc |-> 0, call |-> 0]
    ELSE LET r == RunTool(it.tool, TRUE) IN
         [res |-> r,
          inc |-> IF r = "timeout" \/ (r = "fail" /\ ~dry_run) THEN 1 ELSE 0,
          call |-> 1]

\* v2 validar_elemento, then sincronizar_elemento; timeout_seconds is None
\* in a dry run
ElementoV2(it) ==
    IF it.bad THEN [res |-> "rejected", inc |-> 0, call |-> 0]
    ELSE IF ~it.src THEN [res |-> "missing", inc |-> 0, call |-> 0]
    ELSE LET r == RunTool(it.tool, ~dry_run) IN
         [res |-> r, inc |-> IF r \in {"fail", "timeout"} THEN 1 ELSE 0,
          call |-> 1]

Elemento(it) == IF impl = "v1" THEN ElementoV1(it) ELSE ElementoV2(it)

\* the item loop stops at the first item that fails
LoopBreaks(r) == IF r = "ok" THEN "items" ELSE "crypto"

\* for elemento in elementos: the loop goes on whatever the item returned
LoopContinues(r) == "items"

\* the symlink phase moved to the front of the body
PhaseAfterLinksFirst(ph) ==
    IF ph = "body" THEN "links"
    ELSE IF ph = "links" THEN "items"
    ELSE IF ph = "items" THEN "crypto"
    ELSE "summary"

\* the order of the phases in main / sincronizar: checks, item loop,
\* secondary phase, symlink phase, summary
PhaseAfter(ph) ==
    IF ph = "body" THEN "items"
    ELSE IF ph = "items" THEN "crypto"
    ELSE IF ph = "crypto" THEN "links"
    ELSE "summary"

\* v1: if not self.manejar_enlaces_simbolicos(): exit_code = 1
\* v2: the call's result is not used
AfterLinks(ok) == IF impl = "v1" /\ ~ok THEN 1 ELSE rc

\* one run starts; its options and its item list are the inputs
RunInit ==
    /\ LockInit
    /\ LinkIdle
    /\ SideIdle
    /\ modo \in {"subir", "bajar"}
    /\ dry_run \in BOOLEAN
    /\ yes \in BOOLEAN
    /\ prompts = 0
    /\ sync_crypto \in BOOLEAN
    /\ items \in [1..MaxItems -> ItemKinds]
    /\ results = <<>>
    /\ checked = FALSE
    /\ rc = 0
    /\ errores_sincronizacion = 0
    /\ crypto_res = "none"
    /\ links_res = "none"
    /\ enlaces_errores = 0
    /\ walked = {}
    /\ tool_calls = 0
    /\ summary = FALSE

\* leave main / run through the finally block
Leave(p, code, why) ==
    /\ pc' = [pc EXCEPT ![p] = CleanupEntry]
    /\ phase' = [phase EXCEPT ![p] = "finally"]
    /\ exit_code' = [exit_code EXCEPT ![p] = code]
    /\ how' = [how EXCEPT ![p] = why]

\* confirmar_ejecucion is called unless the run is a dry run, and asks
\* unless --yes was given
AsksAlways(dry, y) == TRUE

Asks(dry, y) == ~dry /\ ~y

\* the exit paths of the checks: those of BodyOutcomes, and standard input
\* not being a terminal when the operator is to be asked
ChecksOutcomes == BodyOutcomes \cup {"notty"}

\* the preconditions, the operator's confirmation and, in v2, the lookup of
\* the item list
Checks(p) ==
    /\ pc[p] = "body"
    /\ \E o \in ChecksOutcomes \ (IF Asks(dry_run, yes) THEN {}
                                  ELSE {"declined", "notty"}) :
         /\ IF o = "proceed"
            THEN /\ pc' = [pc EXCEPT ![p] = PhaseAfter("body")]
                 /\ checked' = TRUE
                 /\ UNCHANGED <<phase, exit_code, how>>
            ELSE /\ Leave(p, IF o = "declined" THEN 0 ELSE 1, o)
                 /\ UNCHANGED checked
         /\ prompts' = IF Asks(dry_run, yes)
                          /\ o \in {"proceed", "declined", "nolist"}
                       THEN prompts + 1 ELSE prompts
    /\ seen' = [seen EXCEPT ![p] = "none"]
    /\ UNCHANGED <<impl, now, lock, lock_acquired, ret, rej, hnd, wts,
                   sig, transferred, tmpfile, lvars, svars>>
    /\ UNCHANGED <<modo, dry_run, yes, sync_crypto, items, results, rc,
                   errores_sincronizacion, crypto_res, links_res,
                   enlaces_errores, walked, tool_calls, summary>>

\* one iteration of the loop of procesar_elementos
Item(p) ==
    /\ pc[p] = "items"
    /\ Len(results) < Len(items)
    /\ LET o == Elemento(items[Len(results) + 1]) IN
         /\ tool_calls' = tool_calls + o.call
         /\ transferred' = [transferred EXCEPT ![p] = @ \/ o.call = 1]
         /\ IF o.res = "hung"
            THEN /\ pc' = [pc EXCEPT ![p] = "hung"]
                 /\ UNCHANGED <<results, rc, errores_sincronizacion>>
            ELSE /\ results' = Append(results, o.res)
                 /\ rc' = IF o.res = "ok" THEN rc ELSE 1
                 /\ errores_sincronizacion' = errores_sincronizacion + o.inc
                 /\ pc' = [pc EXCEPT ![p] =
                             IF Len(results) + 1 = Len(items)
                             THEN PhaseAfter("items")
                             ELSE LoopContinues(o.res)]
    /\ UNCHANGED <<impl, now, lock, phase, lock_acquired, ret, seen, rej, hnd,
                   wts, exit_code, how, sig, tmpfile, lvars, svars>>
    /\ UNCHANGED <<modo, dry_run, yes, prompts, sync_crypto,
                   items, checked, crypto_res,
                   links_res, enlaces_errores, walked, summary>>

\* the secondary phase is not requested
NoCrypto(p) ==
    /\ pc[p] = "crypto"
    /\ ~sync_crypto
    /\ pc' = [pc EXCEPT ![p] = PhaseAfter("crypto")]
    /\ UNCHANGED <<impl, now, lock, phase, lock_acquired, ret, seen, rej, hnd,
                   wts, exit_code, how, sig, transferred, tmpfile, bvars, lvars, svars>>

\* sincronizar_crypto: the KeePass sub-sync (k), then the Crypto directory (c).
\* v1 passes the timeout to both and swallows what the sub-sync raises;
\* v2 runs the sub-sync without a timeout, the main one without a timeout in
\* a dry run, and its TimeoutExpired handler raises AttributeError
\* (self.stats.errores_sinconizacion), which ends the run
Crypto(p) ==
    /\ pc[p] = "crypto"
    /\ sync_crypto
    /\ \E k \in ToolOutcomes, c \in ToolOutcomes :
         LET rk == RunTool(k, impl = "v1")
             rm == RunTool(c, impl = "v1" \/ ~dry_run)
         IN
         /\ transferred' = [transferred EXCEPT ![p] = TRUE]
         /\ IF rk = "hung"
            THEN /\ tool_calls' = tool_calls + 1
                 /\ pc' = [pc EXCEPT ![p] = "hung"]
                 /\ crypto_res' = "started"
                 /\ UNCHANGED <<rc, errores_sincronizacion, phase, exit_code, how>>
            ELSE /\ tool_calls' = tool_calls + 2
                 /\ IF rm = "hung"
                    THEN /\ pc' = [pc EXCEPT ![p] = "hung"]
                         /\ crypto_res' = "started"
                         /\ UNCHANGED <<rc, errores_sincronizacion, phase,
                                        exit_code, how>>
                    ELSE IF rm = "timeout" /\ impl = "v2"
                    THEN /\ crypto_res' = rm
                         /\ Leave(p, 1, "exception")
                         /\ UNCHANGED <<rc, errores_sincronizacion>>
                    ELSE /\ crypto_res' = rm
                         /\ rc' = IF rm = "ok" THEN rc ELSE 1
                         /\ errores_sincronizacion' =
                                errores_sincronizacion + (IF rm = "ok" THEN 0 ELSE 1)
                         /\ pc' = [pc EXCEPT ![p] = PhaseAfter("crypto")]
                         /\ UNCHANGED <<phase, exit_code, how>>
    /\ UNCHANGED <<impl, now, lock, lock_acquired, ret, seen, rej, hnd,
                   wts, sig, tmpfile, lvars, svars>>
    /\ UNCHANGED <<modo, dry_run, yes, prompts, sync_crypto,
                   items, results, checked,
                   links_res, enlaces_errores, walked, summary>>

\* items the capture walk builds a path from and looks at: v1 every item,
\* v2 those that pass the string test of validar_elemento
Walk == IF impl = "v1" THEN DOMAIN items
        ELSE {i \in DOMAIN items : ~items[i].bad}

\* manejar_enlaces_simbolicos, upload direction: generar_archivo_enlaces walks
\* the items; when links were found (f) the metadata file is uploaded with
\* subprocess.run without a timeout (u)
Capture(p) ==
    /\ pc[p] = "links"
    /\ modo = "subir"
    /\ walked' = Walk
    /\ tmpfile' = [tmpfile EXCEPT ![p] = TRUE]
    /\ \E f \in BOOLEAN, u \in ToolOutcomes :
         IF ~f
         THEN /\ links_res' = "ok"
              /\ pc' = [pc EXCEPT ![p] = PhaseAfter("links")]
              /\ UNCHANGED <<rc, tool_calls>>
         ELSE LET r == RunTool(u, FALSE) IN
              /\ tool_calls' = tool_calls + 1
              /\ IF r = "hung"
                 THEN /\ links_res' = "started"
                      /\ pc' = [pc EXCEPT ![p] = "hung"]
                      /\ UNCHANGED rc
                 ELSE /\ links_res' = IF r = "ok" THEN "ok" ELSE "error"
                      /\ rc' = AfterLinks(r = "ok")
                      /\ pc' = [pc EXCEPT ![p] = PhaseAfter("links")]
    /\ UNCHANGED <<impl, now, lock, phase, lock_acquired, ret, seen, rej, hnd,
                   wts, exit_code, how, sig, transferred, lvars, svars>>
    /\ UNCHANGED <<modo, dry_run, yes, prompts, sync_crypto,
                   items, results, checked,
                   errores_sincronizacion, crypto_res, enlaces_errores, summary>>

\* manejar_enlaces_simbolicos, download direction: recrear_enlaces_desde_archivo
\* processes the records; e of them fail
Recreate(p) ==
    /\ pc[p] = "links"
    /\ modo = "bajar"
    /\ \E e \in {0, 1} :
         /\ enlaces_errores' = enlaces_errores + e
         /\ links_res' = IF e = 0 THEN "ok" ELSE "error"
         /\ rc' = AfterLinks(e = 0)
    /\ pc' = [pc EXCEPT ![p] = PhaseAfter("links")]
    /\ UNCHANGED <<impl, now, lock, phase, lock_acquired, ret, seen, rej, hnd,
                   wts, exit_code, how, sig, transferred, tmpfile, lvars, svars>>
    /\ UNCHANGED <<modo, dry_run, yes, prompts, sync_crypto,
                   items, results, checked,
                   errores_sincronizacion, crypto_res, walked, tool_calls,
                   summary>>

\* mostrar_estadisticas, the notification, return exit_code
Summary(p) ==
    /\ pc[p] = "summary"
    /\ summary' = TRUE
    /\ Leave(p, rc, "normal")
    /\ UNCHANGED <<impl, now, lock, lock_acquired, ret, seen, rej, hnd,
                   wts, sig, transferred, tmpfile, lvars, svars>>
    /\ UNCHANGED <<modo, dry_run, yes, prompts, sync_crypto,
                   items, results, checked, rc,
                   errores_sincronizacion, crypto_res, links_res,
                   enlaces_errores, walked, tool_calls>>

\* one run alone, from its start to its exit: establecer_lock, the body in
\* detail, cleanup.  The token it finds is fresh (the clock stands still)
RunNext ==
    \/ Start(Runner)
    \/ A_exists(Runner)
    \/ A_read(Runner)
    \/ A_unlink_c(Runner)
    \/ A_open(Runner)
    \/ A_dump(Runner)
    \/ A_flag(Runner)
    \/ Checks(Runner)
    \/ Item(Runner)
    \/ NoCrypto(Runner)
    \/ Crypto(Runner)
    \/ Capture(Runner)
    \/ Recreate(Runner)
    \/ Summary(Runner)
    \/ C_temp(Runner)
    \/ R_start(Runner)
    \/ R_exists(Runner)
    \/ R_read(Runner)
    \/ R_unlink(Runner)

RunSpec == RunInit /\ [][RunNext]_vars

\* ------------------------------------------- symlink capture / recreate
\* A string is a sequence of pieces: "/" and pieces of names, so that
\* "/home/ann2/x" is <<"/", "home", "/", "ann", "2", "/", "x">>.

\* "/home/$USERNAME"
Placeholder == <<"/", "home", "/", "$USERNAME">>

\* s.split('/')
RECURSIVE Split(_)
Split(s) ==
    IF s = <<>> THEN << <<>> >>
    ELSE IF Head(s) = "/" THEN << <<>> >> \o Split(Tail(s))
    ELSE LET r == Split(Tail(s)) IN << <<Head(s)>> \o Head(r) >> \o Tail(r)

\* '/'.join(ps)
RECURSIVE Join(_)
Join(ps) ==
    IF ps = <<>> THEN <<>>
    ELSE IF Len(ps) = 1 THEN ps[1]
    ELSE ps[1] \o <<"/">> \o Join(Tail(ps))

\* s[n:]
Drop(s, n) == SubSeq(s, n + 1, Len(s))

\* s.replace(old, new, 1)
RECURSIVE ReplaceFirst(_, _, _)
ReplaceFirst(s, old, new) ==
    IF Len(s) < Len(old) \/ old = <<>> THEN s
    ELSE IF IsPrefix(old, s) THEN new \o Drop(s, Len(old))
    ELSE <<Head(s)>> \o ReplaceFirst(Tail(s), old, new)

\* s.replace(old, new)
RECURSIVE ReplaceAll(_, _, _)
ReplaceAll(s, old, new) ==
    IF Len(s) < Len(old) \/ old = <<>> THEN s
    ELSE IF IsPrefix(old, s) THEN new \o ReplaceAll(Drop(s, Len(old)), old, new)
    ELSE <<Head(s)>> \o ReplaceAll(Tail(s), old, new)

NonEmpty(x) == x # <<>>

\* Path(s).parts: the root, then the names
Parts(s) ==
    (IF s # <<>> /\ Head(s) = "/" THEN << <<"/">> >> ELSE <<>>)
        \o SelectSeq(Split(s), NonEmpty)

\* str(Path(*ps))
Str(ps) ==
    IF ps # <<>> /\ ps[1] = <<"/">> THEN <<"/">> \o Join(Tail(ps)) ELSE Join(ps)

\* str(Path(base) / Path(*ps))
Under(base, ps) == IF ps = <<>> THEN base ELSE base \o <<"/">> \o Join(ps)

\* v1 registrar_enlace: what is written as the target
CaptureV1(t, L) ==
    IF IsPrefix(L, t) THEN ReplaceFirst(t, L, Placeholder)
    ELSE IF IsPrefix(<<"/", "home", "/">>, t)
    THEN LET partes == Split(t) IN
         IF Len(partes) >= 3
         THEN Placeholder \o <<"/">> \o Join(Drop(partes, 3))
         ELSE t
    ELSE t

\* v2 _registrar_enlace: destino.relative_to raises ValueError when the root
\* is not a path prefix ("error": the link is not recorded);
\* destino.parts[2:] keeps the user's name
CaptureV2(t, L) ==
    IF IsPrefix(L, t)
    THEN IF IsPrefix(Parts(L), Parts(t))
         THEN Under(Placeholder, Drop(Parts(t), Len(Parts(L))))
         ELSE <<"error">>
    ELSE IF IsPrefix(<<"/", "home", "/">>, t)
    THEN Under(Placeholder, Drop(Parts(t), 2))
    ELSE Str(Parts(t))

CaptureTarget(t, L) == IF impl = "v1" THEN CaptureV1(t, L) ELSE CaptureV2(t, L)

\* procesar_linea_enlace: the target of the link to create.  '$USERNAME' is
\* replaced first, then the result is tested for the placeholder
\* (v1 puts LOCAL_DIR in its place, v2 Path.home())
RecreateTarget(d, R, user) ==
    LET n == ReplaceAll(d, <<"$USERNAME">>, user) IN
    IF IsPrefix(Placeholder, n)
    THEN (IF impl = "v1" THEN ReplaceFirst(n, Placeholder, R)
          ELSE ReplaceAll(n, Placeholder, <<"/", "home", "/">> \o user))
    ELSE n

\* local roots of a user: the home directory, or a directory elsewhere
Roots(user) == { <<"/", "home", "/", user>>, <<"/", "srv", "/", user>> }

Logins == { <<"bob">>, <<"eve">> }

\* the paths of links a record can name: relative to the local root, as
\* capture writes them, absolute, or with a parent-traversal segment
Rutas ==
    { <<"x">>, <<"docs", "/", "link">>,
      <<"/", "etc", "/", "x">>, <<"..", "/", "x">> }

\* str(Path(base) / r): an absolute r replaces base
PathUnder(base, r) ==
    IF r # <<>> /\ Head(r) = "/" THEN Str(Parts(r))
    ELSE Str(Parts(base \o <<"/">> \o r))

\* targets a link under local root L can have: inside L, L itself, a
\* directory whose name starts with L's, another user's home, elsewhere,
\* relative
RawTargets(L) ==
    { L \o <<"/", "notes">>,
      L \o <<"/", "docs", "/", "notes">>,
      L,
      L \o <<"2", "/", "notes">>,
      <<"/", "home", "/", "bob", "/", "notes">>,
      <<"/", "srv", "/", "notes">>,
      <<"docs", "/", "notes">> }

\* records of a metadata file received from another machine
Records ==
    { Placeholder \o <<"/", "notes">>,
      Placeholder,
      <<"/", "srv", "/", "notes">> }

\* a link to capture on one machine and recreate on another, or a record
\* to recreate
LinkInit ==
    /\ LockInit /\ lock = NoFile
    /\ BodyIdle
    /\ SideIdle
    /\ local_dir \in Roots("ann")
    /\ new_dir \in Roots("bob")
    /\ login \in Logins
    /\ \/ /\ lstep = "raw"
          /\ ruta \in {r \in Rutas : Head(r) \notin {"/", ".."}}
          /\ raw \in RawTargets(local_dir)
          /\ recorded = <<>>
       \/ /\ lstep = "captured"
          /\ ruta \in Rutas
          /\ raw = <<>>
          /\ recorded \in Records
    /\ recreated = [at |-> <<>>, target |-> <<>>]

\* registrar_enlace writes the record
RegistrarEnlace ==
    /\ lstep = "raw"
    /\ CaptureTarget(raw, local_dir) # <<"error">>
    /\ recorded' = CaptureTarget(raw, local_dir)
    /\ lstep' = "captured"
    /\ UNCHANGED <<impl, now, lock, pc, phase, lock_acquired, ret, seen, rej,
                   hnd, wts, exit_code, how, sig, transferred, tmpfile, bvars, svars>>
    /\ UNCHANGED <<raw, local_dir, new_dir, login, ruta, recreated>>

\* v2: relative_to raised; the exception is logged and nothing is written
RegistrarEnlaceError ==
    /\ lstep = "raw"
    /\ CaptureTarget(raw, local_dir) = <<"error">>
    /\ lstep' = "dropped"
    /\ UNCHANGED <<impl, now, lock, pc, phase, lock_acquired, ret, seen, rej,
                   hnd, wts, exit_code, how, sig, transferred, tmpfile, bvars, svars>>
    /\ UNCHANGED <<raw, local_dir, new_dir, login, ruta, recorded, recreated>>

\* procesar_linea_enlace creates the link on the other machine
ProcesarLineaEnlace ==
    /\ lstep = "captured"
    /\ recreated' = [at |-> PathUnder(new_dir, ruta),
                     target |-> RecreateTarget(recorded, new_dir, login)]
    /\ lstep' = "recreated"
    /\ UNCHANGED <<impl, now, lock, pc, phase, lock_acquired, ret, seen, rej,
                   hnd, wts, exit_code, how, sig, transferred, tmpfile, bvars, svars>>
    /\ UNCHANGED <<raw, local_dir, new_dir, login, ruta, recorded>>

LinkNext ==
    \/ RegistrarEnlace
    \/ RegistrarEnlaceError
    \/ ProcesarLineaEnlace

LinkSpec == LinkInit /\ [][LinkNext]_vars

\* ------------------------------------------- recreate of a metadata file
\* records read from one metadata file
MaxLines == 2

\* the link paths the records name, relative to the local root; the parent
\* directory of "d/b" may be missing
Paths == {"a", "d/b"}

\* the normalized targets the records name; nothing exists at "t2"
Targets == {"t1", "t2"}

TargetExists(t) == t = "t1"

\* what can be at a link path: nothing, a regular file, a symlink (its target)
Entries == {"none", "file"} \cup Targets

IsLink(e) == e \in Targets

MissingParent(r, ds) == r = "d/b" /\ "d" \notin ds

\* the file-system calls of a record are skipped in simulate-only mode
MutatesAlways(dry) == TRUE

Mutates(dry) == ~dry

\* what the calls of one record do, given which link the code takes for an
\* existing one (seen) and where an error of unlink goes (unlink_err)
Procesar(r, dry, seen_link, unlink_err) ==
    LET e == fs[r.ruta]
        same == seen_link /\ e = r.destino
        unl == seen_link /\ ~same /\ Mutates(dry)
        unlfail == unl /\ r.ruta \in faulty
        left == IF unl /\ ~unlfail THEN "none" ELSE e
        symfail == r.ruta \in faulty \/ left # "none"
        made == ~same /\ ~unlfail /\ ~dry /\ ~symfail
    IN  [ out |-> IF same THEN "existing"
                  ELSE IF unlfail THEN unlink_err
                  ELSE IF dry THEN "created"
                  ELSE IF symfail THEN "error" ELSE "created",
          fs |-> [fs EXCEPT ![r.ruta] = IF made THEN r.destino ELSE left],
          mk |-> Mutates(dry) /\ MissingParent(r.ruta, dirs),
          muts |-> (IF unl /\ ~unlfail THEN 1 ELSE 0)
                   + (IF made THEN 1 ELSE 0) ]

\* v1: is_symlink() finds every symlink; the whole body is inside the try
ProcesarV1(r, dry) == Procesar(r, dry, IsLink(fs[r.ruta]), "error")

\* v2: exists() follows the link, so a dangling one is not looked at; unlink
\* is outside the try and its OSError ends the loop over the lines
ProcesarV2(r, dry) ==
    Procesar(r, dry, IsLink(fs[r.ruta]) /\ TargetExists(fs[r.ruta]), "abort")

ProcesarLinea(r, dry) ==
    IF impl = "v1" THEN ProcesarV1(r, dry) ELSE ProcesarV2(r, dry)

\* one download run of recreate, and the same run once more
RecInit ==
    /\ LockInit /\ lock = NoFile
    /\ LinkIdle
    /\ CryptoIdle
    /\ StatIdle
    /\ ListIdle
    /\ modo = "bajar"
    /\ dry_run \in BOOLEAN
    /\ yes = FALSE
    /\ prompts = 0
    /\ sync_crypto = FALSE
    /\ items = <<>>
    /\ results = <<>>
    /\ checked = TRUE
    /\ rc = 0
    /\ errores_sincronizacion = 0
    /\ crypto_res = "none"
    /\ links_res = "none"
    /\ enlaces_errores = 0
    /\ walked = {}
    /\ tool_calls = 0
    /\ summary = FALSE
    /\ rstep = "fetch"
    /\ pass = 1
    /\ lineas \in UNION { [1..n -> [ruta : Paths, destino : Targets]] :
                          n \in 1..MaxLines }
    /\ louts = <<>>
    /\ dirs \in SUBSET {"d"}
    /\ fs \in [Paths -> Entries]
    /\ MissingParent("d/b", dirs) => fs["d/b"] = "none"
    /\ faulty \in {{}, {"a"}}
    /\ remote_meta \in BOOLEAN
    /\ local_meta \in BOOLEAN
    /\ ~(remote_meta /\ local_meta)
    /\ had_meta = FALSE
    /\ enlaces_creados = 0
    /\ enlaces_existentes = 0
    /\ muts = 0
    /\ mkdirs = 0
    /\ err1 = FALSE
    /\ CapIdle
    /\ OptIdle
    /\ CmdIdle

\* the variables of the run body that recreate leaves alone
bfix == <<modo, dry_run, yes, prompts, sync_crypto, items, results,
          checked, rc,
          errores_sincronizacion, crypto_res, links_res, walked, tool_calls,
          summary>>

\* copy the metadata file from the remote root, or use a leftover copy
Fetch ==
    /\ rstep = "fetch"
    /\ local_meta' = (remote_meta \/ local_meta)
    /\ had_meta' = local_meta'
    /\ rstep' = IF local_meta' THEN "lines" ELSE "exit"
    /\ UNCHANGED <<pass, lineas, louts, fs, dirs, faulty, remote_meta,
                   enlaces_creados, enlaces_existentes, muts, mkdirs, err1>>
    /\ UNCHANGED <<kvars, bfix, enlaces_errores, lvars, cvars, ovars, mvars, gvars, tvars, yvars>>

\* the next line of the file
Linea ==
    /\ rstep = "lines"
    /\ LET n == Len(louts) + 1
           res == ProcesarLinea(lineas[n], dry_run)
       IN  /\ louts' = Append(louts, res.out)
           /\ fs' = res.fs
           /\ dirs' = IF res.mk THEN dirs \cup {"d"} ELSE dirs
           /\ mkdirs' = mkdirs + (IF res.mk THEN 1 ELSE 0)
           /\ muts' = muts + res.muts
           /\ enlaces_creados' =
                  enlaces_creados + (IF res.out = "created" THEN 1 ELSE 0)
           /\ enlaces_existentes' =
                  enlaces_existentes + (IF res.out = "existing" THEN 1 ELSE 0)
           /\ enlaces_errores' =
                  enlaces_errores + (IF res.out = "error" THEN 1 ELSE 0)
           /\ err1' = (err1 \/ (pass = 1 /\ res.out \in {"error", "abort"}))
           /\ rstep' = IF res.out = "abort" THEN "exit"
                       ELSE IF n = Len(lineas) THEN "end" ELSE "lines"
    /\ UNCHANGED <<pass, lineas, faulty, remote_meta, local_meta, had_meta>>
    /\ UNCHANGED <<kvars, bfix, lvars, cvars, ovars, mvars, gvars, tvars, yvars>>

\* after the last line; v2 removes the local copy unless simulating
Fin ==
    /\ rstep = "end"
    /\ local_meta' = IF impl = "v2" /\ ~dry_run THEN FALSE ELSE local_meta
    /\ rstep' = "exit"
    /\ UNCHANGED <<pass, lineas, louts, fs, dirs, faulty, remote_meta,
                   had_meta, enlaces_creados, enlaces_existentes, muts,
                   mkdirs, err1>>
    /\ UNCHANGED <<kvars, bfix, enlaces_errores, lvars, cvars, ovars, mvars, gvars, tvars, yvars>>

\* the process exits; v1 removes every registered temporary file
Exit ==
    /\ rstep = "exit"
    /\ local_meta' = IF impl = "v1" /\ had_meta THEN FALSE ELSE local_meta
    /\ rstep' = "done"
    /\ UNCHANGED <<pass, lineas, louts, fs, dirs, faulty, remote_meta,
                   had_meta, enlaces_creados, enlaces_existentes, muts,
                   mkdirs, err1>>
    /\ UNCHANGED <<kvars, bfix, enlaces_errores, lvars, cvars, ovars, mvars, gvars, tvars, yvars>>

\* the program is run once more on what the first run left
Again ==
    /\ rstep = "done"
    /\ pass = 1
    /\ pass' = 2
    /\ rstep' = "fetch"
    /\ louts' = <<>>
    /\ had_meta' = FALSE
    /\ enlaces_creados' = 0
    /\ enlaces_existentes' = 0
    /\ enlaces_errores' = 0
    /\ muts' = 0
    /\ mkdirs' = 0
    /\ UNCHANGED <<lineas, fs, dirs, faulty, remote_meta, local_meta, err1>>
    /\ UNCHANGED <<kvars, bfix, lvars, cvars, ovars, mvars, gvars, tvars, yvars>>

RecNext ==
    \/ Fetch
    \/ Linea
    \/ Fin
    \/ Exit
    \/ Again

RecSpec == RecInit /\ [][RecNext]_vars

\* ------------------------------------- capture of the item list's links
\* items in the list of one upload run
MaxElems == 3

\* the local tree: a symlink "l", a regular file "f", and a directory "d"
\* holding the symlink "d/x" and the directory "d/s" with the symlink "d/s/y"
Children(d) ==
    IF d = "d" THEN <<"d/x", "d/s">>
    ELSE IF d = "d/s" THEN <<"d/s/y">> ELSE <<>>

Kind(n) ==
    IF n \in {"l", "d/x", "d/s/y"} THEN "link"
    ELSE IF n \in {"d", "d/s"} THEN "dir" ELSE "file"

\* the entries of a sequence of paths that are of kind k
RECURSIVE OfKind(_, _)
OfKind(ns, k) ==
    IF ns = <<>> THEN <<>>
    ELSE (IF Kind(Head(ns)) = k THEN <<Head(ns)>> ELSE <<>>)
         \o OfKind(Tail(ns), k)

\* os.walk / rglob: the symlinks of a directory, then those of the
\* directories below it (a symlink is never descended into)
RECURSIVE BuscarEnlaces(_)
RECURSIVE BuscarEnlacesIn(_)
BuscarEnlacesIn(ds) ==
    IF ds = <<>> THEN <<>>
    ELSE BuscarEnlaces(Head(ds)) \o BuscarEnlacesIn(Tail(ds))

BuscarEnlaces(d) ==
    OfKind(Children(d), "link") \o BuscarEnlacesIn(OfKind(Children(d), "dir"))

\* the records one item of the list adds to the buffer
EnlacesDe(e) ==
    IF Kind(e) = "link" THEN <<e>>
    ELSE IF Kind(e) = "dir" THEN BuscarEnlaces(e) ELSE <<>>

ItemNames == {"l", "f", "d", "d/s"}

\* the item list of an upload run
CapInit ==
    /\ LockInit /\ lock = NoFile
    /\ BodyIdle
    /\ LinkIdle
    /\ CryptoIdle
    /\ StatIdle
    /\ ListIdle
    /\ RecIdle
    /\ OptIdle
    /\ CmdIdle
    /\ elementos \in UNION { [1..n -> ItemNames] : n \in 1..MaxElems }
    /\ handled = 0
    /\ buffer = <<>>
    /\ uploaded = FALSE

\* one iteration of the loop over the item list
CaptureItem ==
    /\ handled < Len(elementos)
    /\ handled' = handled + 1
    /\ buffer' = buffer \o EnlacesDe(elementos[handled + 1])
    /\ UNCHANGED <<elementos, uploaded>>
    /\ UNCHANGED <<kvars, bvars, lvars, rvars, ovars, mvars, gvars, tvars, yvars>>

\* after the loop a buffer that is not empty is sent to the remote root
CaptureUpload ==
    /\ handled = Len(elementos)
    /\ buffer # <<>>
    /\ ~uploaded
    /\ uploaded' = TRUE
    /\ UNCHANGED <<elementos, handled, buffer>>
    /\ UNCHANGED <<kvars, bvars, lvars, rvars, ovars, mvars, gvars, tvars, yvars>>

CapNext ==
    \/ CaptureItem
    \/ CaptureUpload

CapSpec == CapInit /\ [][CapNext]_vars

\* ------------------------------------- the option list of the transfer tool
\* the options every list starts with
BaseOpts ==
    IF impl = "v1"
    THEN << <<"--recursive">>, <<"--verbose">>, <<"--times">>,
            <<"--progress">>, <<"--whole-file">>, <<"--no-links">>,
            <<"--itemize-changes">> >>
    ELSE << <<"--recursive">>, <<"--verbose">>, <<"--times">>,
            <<"--progress">>, <<"--munge-links">>, <<"--whole-file">>,
            <<"--itemize-changes">> >>

\* get_exclusiones: the configuration's patterns, then the command line's
ExclusionesCliFirst(cfg, cli) == cli \o cfg

GetExclusiones(cfg, cli) == cfg \o cli

\* construir_opciones_rsync
ConstruirOpciones(ow, dry, del, sum, bw, cfg, cli) ==
    BaseOpts
    \o (IF ~ow THEN << <<"--update">> >> ELSE <<>>)
    \o (IF dry THEN << <<"--dry-run">> >> ELSE <<>>)
    \o (IF del THEN << <<"--delete-delay">> >> ELSE <<>>)
    \o (IF sum THEN << <<"--checksum">> >> ELSE <<>>)
    \o (IF bw # "" THEN << <<"--bwlimit=", bw>> >> ELSE <<>>)
    \o [i \in 1..Len(GetExclusiones(cfg, cli)) |->
            <<"--exclude=", GetExclusiones(cfg, cli)[i]>>]

\* the pattern lists a run is given
ConfigPatterns == {<<>>, <<"*.tmp">>, <<"*.tmp", ".cache">>}
CliPatterns == {<<>>, <<"*.log">>, <<"*.log", "*.tmp">>}

\* the parsed flags of an invocation, its configuration and patterns
OptInit ==
    /\ LockInit /\ lock = NoFile
    /\ LinkIdle
    /\ CryptoIdle
    /\ StatIdle
    /\ ListIdle
    /\ RecIdle
    /\ CapIdle
    /\ CmdIdle
    /\ modo = "subir"
    /\ dry_run \in BOOLEAN
    /\ yes = FALSE
    /\ prompts = 0
    /\ sync_crypto = FALSE
    /\ items = <<>>
    /\ results = <<>>
    /\ checked = FALSE
    /\ rc = 0
    /\ errores_sincronizacion = 0
    /\ crypto_res = "none"
    /\ links_res = "none"
    /\ enlaces_errores = 0
    /\ walked = {}
    /\ tool_calls = 0
    /\ summary = FALSE
    /\ ostep = "args"
    /\ overwrite \in BOOLEAN
    /\ delete \in BOOLEAN
    /\ use_checksum \in BOOLEAN
    /\ bw_limit \in {"", "100"}
    /\ exclusiones \in ConfigPatterns
    /\ exclusiones_cli \in CliPatterns
    /\ built = NoBuild
    /\ prev = NoBuild
    /\ opts_base = <<>>
    /\ opts_overwrite = <<>>
    /\ opts_delete = <<>>
    /\ tests_pasados = 0
    /\ tests_fallados = 0

\* the variables of the run body apart from the dry-run flag
bopt == <<modo, yes, prompts, sync_crypto, items, results, checked, rc,
          errores_sincronizacion, crypto_res, links_res, enlaces_errores,
          walked, tool_calls, summary>>

\* the list for the fields as they are now
OptsNow(ow, dry, del) ==
    ConstruirOpciones(ow, dry, del, use_checksum, bw_limit,
                      exclusiones, exclusiones_cli)

\* a step of the run calls construir_opciones_rsync
Build ==
    /\ ostep = "args"
    /\ built' = [flags |-> <<overwrite, dry_run, delete, use_checksum>>,
                 opts |-> OptsNow(overwrite, dry_run, delete)]
    /\ ostep' = "built"
    /\ UNCHANGED <<overwrite, delete, use_checksum, bw_limit, exclusiones,
                   exclusiones_cli, prev, opts_base, opts_overwrite,
                   opts_delete, tests_pasados, tests_fallados>>
    /\ UNCHANGED <<kvars, bvars, lvars, rvars, cvars, mvars, gvars, tvars, yvars>>

\* the program is invoked once more, with the same configuration and
\* patterns and any flags
Invoke ==
    /\ ostep = "built"
    /\ prev = NoBuild
    /\ prev' = built
    /\ overwrite' \in BOOLEAN
    /\ dry_run' \in BOOLEAN
    /\ delete' \in BOOLEAN
    /\ use_checksum' \in BOOLEAN
    /\ ostep' = "args"
    /\ UNCHANGED <<bw_limit, exclusiones, exclusiones_cli, built, opts_base,
                   opts_overwrite, opts_delete, tests_pasados, tests_fallados>>
    /\ UNCHANGED <<kvars, bopt, lvars, rvars, cvars, mvars, gvars, tvars, yvars>>

\* run_tests, Test 2: every flag off
T2Base ==
    /\ impl = "v1"
    /\ ostep = "args"
    /\ prev = NoBuild
    /\ overwrite' = FALSE
    /\ dry_run' = FALSE
    /\ delete' = FALSE
    /\ use_checksum' = FALSE
    /\ bw_limit' = ""
    /\ opts_base' = ConstruirOpciones(FALSE, FALSE, FALSE, FALSE, "",
                                      exclusiones, exclusiones_cli)
    /\ ostep' = "t_base"
    /\ UNCHANGED <<exclusiones, exclusiones_cli, built, prev, opts_overwrite,
                   opts_delete, tests_pasados, tests_fallados>>
    /\ UNCHANGED <<kvars, bopt, lvars, rvars, cvars, mvars, gvars, tvars, yvars>>

\* run_tests, Test 2: overwrite = True
T2Overwrite ==
    /\ ostep = "t_base"
    /\ overwrite' = TRUE
    /\ opts_overwrite' = OptsNow(TRUE, dry_run, delete)
    /\ ostep' = "t_over"
    /\ UNCHANGED <<delete, use_checksum, bw_limit, exclusiones,
                   exclusiones_cli, built, prev, opts_base, opts_delete,
                   tests_pasados, tests_fallados>>
    /\ UNCHANGED <<kvars, bvars, lvars, rvars, cvars, mvars, gvars, tvars, yvars>>

\* run_tests, Test 2: delete = True
T2Delete ==
    /\ ostep = "t_over"
    /\ delete' = TRUE
    /\ opts_delete' = OptsNow(overwrite, dry_run, TRUE)
    /\ ostep' = "t_del"
    /\ UNCHANGED <<overwrite, use_checksum, bw_limit, exclusiones,
                   exclusiones_cli, built, prev, opts_base, opts_overwrite,
                   tests_pasados, tests_fallados>>
    /\ UNCHANGED <<kvars, bvars, lvars, rvars, cvars, mvars, gvars, tvars, yvars>>

\* run_tests, Test 2: the comparison of the three lengths
T2Verdict ==
    /\ ostep = "t_del"
    /\ IF /\ Len(opts_base) # Len(opts_overwrite)
          /\ Len(opts_base) # Len(opts_delete)
       THEN tests_pasados' = tests_pasados + 1 /\ UNCHANGED tests_fallados
       ELSE tests_fallados' = tests_fallados + 1 /\ UNCHANGED tests_pasados
    /\ ostep' = "t_done"
    /\ UNCHANGED <<overwrite, delete, use_checksum, bw_limit, exclusiones,
                   exclusiones_cli, built, prev, opts_base, opts_overwrite,
                   opts_delete>>
    /\ UNCHANGED <<kvars, bvars, lvars, rvars, cvars, mvars, gvars, tvars, yvars>>

OptNext ==
    \/ Build
    \/ Invoke
    \/ T2Base
    \/ T2Overwrite
    \/ T2Delete
    \/ T2Verdict

OptSpec == OptInit /\ [][OptNext]_vars

\* -------------------------- the paths one run hands to the transfer tool
\* the host with lists and directories of its own, and another host
HOSTNAME_RTVA == "feynman.rtva.dnf"

Hosts == {HOSTNAME_RTVA, "laptop"}

LOCAL_DIR == <<"/", "home", "/", "ann">>
PCLOUD_BACKUP_COMUN == <<"/", "pcloud", "/", "Backup_Comun">>
PCLOUD_BACKUP_READONLY == <<"/", "pcloud", "/", "pCloud Backup">>
SYMLINKS_FILE == <<".syncb_symlinks.meta">>

LOCAL_CRYPTO_DIR == LOCAL_DIR \o <<"/", "Crypto">>
REMOTO_CRYPTO_DIR == <<"/", "pcloud", "/", "Crypto Folder">>
LOCAL_KEEPASS_DIR ==
    LOCAL_CRYPTO_DIR \o <<"/", "ficheros_sensibles", "/", "Keepass2Android">>
REMOTE_KEEPASS_DIR ==
    <<"/", "pcloud", "/", "Applications", "/", "Keepass2Android">>
LOCAL_CRYPTO_HOSTNAME_RTVA_DIR ==
    LOCAL_CRYPTO_DIR \o <<"/", "ficheros_sensibles">>
REMOTO_CRYPTO_HOSTNAME_RTVA_DIR ==
    REMOTO_CRYPTO_DIR \o <<"/", "ficheros_sensibles">>

\* get_pcloud_dir
GetPcloudDirSwapped(mode) ==
    IF mode = "readonly" THEN PCLOUD_BACKUP_COMUN ELSE PCLOUD_BACKUP_READONLY

GetPcloudDir(mode) ==
    IF mode = "readonly" THEN PCLOUD_BACKUP_READONLY ELSE PCLOUD_BACKUP_COMUN

\* str(Path(s)): pathlib drops empty components and a trailing separator
PathStr(s) == Str(Parts(s))

\* str(Path(base) / e)
PathJoin(base, e) == PathStr(base \o <<"/">> \o e)

\* the items of a list: a directory, the same written with a trailing
\* separator, and a file inside it
CmdItems == { <<"docs">>, <<"docs", "/">>, <<"docs", "/", "a.txt">> }

\* origen.is_dir()
IsDir(e) == e \in { <<"docs">>, <<"docs", "/">> }

\* sincronizar_elemento: the two paths at the end of the command line.
\* v1 rebuilds a directory's paths as Path(str(p) + "/"), v2 as p / ""
SincronizarPaths(e, m, root) ==
    LET o == IF m = "subir" THEN PathJoin(LOCAL_DIR, e) ELSE PathJoin(root, e)
        d == IF m = "subir" THEN PathJoin(root, e) ELSE PathJoin(LOCAL_DIR, e)
        Dir(q) == IF impl = "v1" THEN PathStr(q \o <<"/">>)
                  ELSE PathJoin(q, <<>>)
    IN  [ origen |-> IF IsDir(e) THEN Dir(o) ELSE o,
          destino |-> IF IsDir(e) THEN Dir(d) ELSE d,
          dir |-> IsDir(e), item |-> e ]

\* the local and the remote directory of the secondary phase on host h
CryptoLocal(h) ==
    IF h = HOSTNAME_RTVA THEN LOCAL_CRYPTO_HOSTNAME_RTVA_DIR
    ELSE LOCAL_CRYPTO_DIR

CryptoRemote(h) ==
    IF h = HOSTNAME_RTVA THEN REMOTO_CRYPTO_HOSTNAME_RTVA_DIR
    ELSE REMOTO_CRYPTO_DIR

\* the direction ignored: always local to remote
CryptoDirsSubir(m, h) ==
    [origen |-> CryptoLocal(h), destino |-> CryptoRemote(h)]

\* sincronizar_crypto: origen and destino of the phase
CryptoDirs(m, h) ==
    IF m = "subir"
    THEN [origen |-> CryptoLocal(h), destino |-> CryptoRemote(h)]
    ELSE [origen |-> CryptoRemote(h), destino |-> CryptoLocal(h)]

\* the two paths of the KeePass invocation: v1 str(p) + "/", v2 p / ""
KeepassPaths ==
    LET Dir(q) == IF impl = "v1" THEN PathStr(q) \o <<"/">>
                  ELSE PathJoin(q, <<>>)
    IN  [what |-> "keepass", origen |-> Dir(REMOTE_KEEPASS_DIR),
         destino |-> Dir(LOCAL_KEEPASS_DIR)]

\* the two paths of the main invocation of the phase (both directories
\* exist by now): v1 Path(str(p) + "/"), v2 p / ""
CryptoPaths(m, h) ==
    LET Dir(q) == IF impl = "v1" THEN PathStr(q \o <<"/">>)
                  ELSE PathJoin(q, <<>>)
    IN  [what |-> "crypto", origen |-> Dir(CryptoDirs(m, h).origen),
         destino |-> Dir(CryptoDirs(m, h).destino)]

\* the variables of the paths but the position
mvars_rest == <<backup_dir_mode, lista, cmds, roots, meta, pcloud_dir_comun,
                pcloud_dir_readonly>>

\* the flags and the item list of one run
CmdInit ==
    /\ LockInit /\ lock = NoFile
    /\ LinkIdle
    /\ CryptoIdle
    /\ StatIdle
    /\ items_especificos = <<>>
    /\ hostname \in Hosts
    /\ host_lists = <<>>
    /\ default_list = NoList
    /\ resolved = NotResolved
    /\ RecIdle
    /\ CapIdle
    /\ OptIdle
    /\ modo \in {"subir", "bajar"}
    /\ dry_run = FALSE
    /\ yes = FALSE
    /\ prompts = 0
    /\ sync_crypto \in BOOLEAN
    /\ items = <<>>
    /\ results = <<>>
    /\ checked = FALSE
    /\ rc = 0
    /\ errores_sincronizacion = 0
    /\ crypto_res = "none"
    /\ links_res = "none"
    /\ enlaces_errores = 0
    /\ walked = {}
    /\ tool_calls = 0
    /\ summary = FALSE
    /\ mstep = "start"
    /\ backup_dir_mode \in {"comun", "readonly"}
    /\ lista \in UNION { [1..n -> CmdItems] : n \in 1..MaxElems }
    /\ cmds = <<>>
    /\ roots = {}
    /\ meta = <<>>
    /\ pcloud_dir_comun = <<>>
    /\ pcloud_dir_readonly = <<>>

\* the run goes on to the item loop
CmdStart ==
    /\ mstep = "start"
    /\ mstep' = "items"
    /\ UNCHANGED <<backup_dir_mode, lista, cmds, roots, meta,
                   pcloud_dir_comun, pcloud_dir_readonly>>
    /\ UNCHANGED <<kvars, bvars, lvars, rvars, cvars, ovars, gvars, tvars, yvars>>

\* one iteration of the item loop
ItemPaths ==
    /\ mstep = "items"
    /\ LET e == lista[Len(cmds) + 1]
           pcloud_dir == GetPcloudDir(backup_dir_mode)
       IN  /\ cmds' = Append(cmds, SincronizarPaths(e, modo, pcloud_dir))
           /\ roots' = roots \cup {pcloud_dir}
    /\ mstep' = IF Len(cmds') < Len(lista) THEN "items"
                ELSE IF sync_crypto THEN "crypto" ELSE "links"
    /\ UNCHANGED <<backup_dir_mode, lista, meta, pcloud_dir_comun,
                   pcloud_dir_readonly>>
    /\ UNCHANGED <<kvars, bvars, lvars, rvars, cvars, ovars, gvars, tvars, yvars>>

\* sincronizar_crypto: the KeePass invocation (v2: when both directories
\* are there), then the main one
SincronizarCrypto ==
    /\ mstep = "crypto"
    /\ \E keepass \in IF impl = "v1" THEN {TRUE} ELSE BOOLEAN :
         crypto_cmds' = (IF keepass THEN <<KeepassPaths>> ELSE <<>>)
                           \o <<CryptoPaths(modo, hostname)>>
    /\ mstep' = "links"
    /\ UNCHANGED <<kvars, bvars, lvars, rvars, cvars, ovars, mvars_rest,
                   gvars, tvars>>

\* the metadata file of the symlinks: upload to, or fetch from, the remote
\* root
MetaPath ==
    /\ mstep = "links"
    /\ LET pcloud_dir == GetPcloudDir(backup_dir_mode)
       IN  /\ meta' = IF impl = "v1" /\ modo = "subir"
                      THEN pcloud_dir \o <<"/">> \o SYMLINKS_FILE
                      ELSE PathJoin(pcloud_dir, SYMLINKS_FILE)
           /\ roots' = roots \cup {pcloud_dir}
    /\ mstep' = "done"
    /\ UNCHANGED <<backup_dir_mode, lista, cmds, pcloud_dir_comun,
                   pcloud_dir_readonly>>
    /\ UNCHANGED <<kvars, bvars, lvars, rvars, cvars, ovars, gvars, tvars, yvars>>

\* run_tests, Test 1 (v1, --test): the root for "comun"
T1Comun ==
    /\ impl = "v1"
    /\ mstep = "start"
    /\ backup_dir_mode' = "comun"
    /\ pcloud_dir_comun' = GetPcloudDir("comun")
    /\ mstep' = "t_comun"
    /\ UNCHANGED <<lista, cmds, roots, meta, pcloud_dir_readonly>>
    /\ UNCHANGED <<kvars, bvars, lvars, rvars, cvars, ovars, gvars, tvars, yvars>>

\* run_tests, Test 1: the root for "readonly"; the process exits after the
\* tests
T1Readonly ==
    /\ mstep = "t_comun"
    /\ backup_dir_mode' = "readonly"
    /\ pcloud_dir_readonly' = GetPcloudDir("readonly")
    /\ mstep' = "t_done"
    /\ UNCHANGED <<lista, cmds, roots, meta, pcloud_dir_comun>>
    /\ UNCHANGED <<kvars, bvars, lvars, rvars, cvars, ovars, gvars, tvars, yvars>>

CmdNext ==
    \/ CmdStart
    \/ ItemPaths
    \/ SincronizarCrypto
    \/ MetaPath
    \/ T1Comun
    \/ T1Readonly

CmdSpec == CmdInit /\ [][CmdNext]_vars

\* ----------------------------------------- resolution of the item list
\* a list the configuration has (it may be empty)
Listed(l) == [has |-> TRUE, lista |-> l]

\* v1 get_lista_sincronizacion: the table of hosts is looked at only on the
\* host named by hostname_rtva; a missing default list reads as []
GetListaV1 ==
    IF items_especificos # <<>> THEN [ok |-> TRUE, lista |-> items_especificos]
    ELSE IF hostname = HOSTNAME_RTVA /\ host_lists[hostname].has
    THEN [ok |-> TRUE, lista |-> host_lists[hostname].lista]
    ELSE [ok |-> TRUE, lista |-> default_list.lista]

\* v2 obtener_lista_sincronizacion: sys.exit(1) when neither the host nor
\* 'default' is a key of the table
ObtenerListaV2 ==
    IF items_especificos # <<>> THEN [ok |-> TRUE, lista |-> items_especificos]
    ELSE IF host_lists[hostname].has
    THEN [ok |-> TRUE, lista |-> host_lists[hostname].lista]
    ELSE IF default_list.has
    THEN [ok |-> TRUE, lista |-> default_list.lista]
    ELSE [ok |-> FALSE, lista |-> <<>>]

GetLista == IF impl = "v1" THEN GetListaV1 ELSE ObtenerListaV2

\* one run, the command line and the configuration it is given
ListInit ==
    /\ LockInit
    /\ BodyIdle
    /\ LinkIdle
    /\ CryptoIdle
    /\ StatIdle
    /\ RecIdle
    /\ CapIdle
    /\ OptIdle
    /\ CmdIdle
    /\ items_especificos \in {<<>>, <<"music">>}
    /\ hostname \in Hosts
    /\ host_lists \in [Hosts -> {NoList, Listed(<<>>), Listed(<<"work">>)}]
    /\ default_list \in {NoList, Listed(<<>>), Listed(<<"docs">>)}
    /\ resolved = NotResolved

\* procesar_elementos looks the list up, after the lock, the preconditions
\* and the confirmation; the loop over it is not detailed here
Resolve(p) ==
    /\ pc[p] = "body"
    /\ resolved' = [done |-> TRUE, ok |-> GetLista.ok, lista |-> GetLista.lista]
    /\ IF GetLista.ok THEN Leave(p, 0, "normal") ELSE Leave(p, 1, "nolist")
    /\ seen' = [seen EXCEPT ![p] = "none"]
    /\ UNCHANGED <<impl, now, lock, lock_acquired, ret, rej, hnd, wts, sig,
                   transferred, tmpfile>>
    /\ UNCHANGED <<items_especificos, hostname, host_lists, default_list>>
    /\ UNCHANGED <<bvars, lvars, rvars, cvars, ovars, mvars, tvars, yvars>>

ListNext ==
    \/ Start(Runner)
    \/ A_exists(Runner)
    \/ A_read(Runner)
    \/ A_unlink_c(Runner)
    \/ A_open(Runner)
    \/ A_dump(Runner)
    \/ A_flag(Runner)
    \/ Resolve(Runner)
    \/ C_temp(Runner)
    \/ R_start(Runner)
    \/ R_exists(Runner)
    \/ R_read(Runner)
    \/ R_unlink(Runner)

ListSpec == ListInit /\ [][ListNext]_vars

\* ------------------------------------------- the statistics of one run
\* the pieces a report of the transfer tool is made of: the itemized marks
\* of a received file, of an update (after ">f"), of a sent file and of a
\* deletion, and the line break
Pieces == {">f", ".st", "<f", "*deleting", "\n"}

MaxOut == 3

MaxCalls == 2

Outputs == UNION {[1..n -> Pieces] : n \in 0..MaxOut}

\* output.split('\n')
RECURSIVE SplitLines(_)
SplitLines(s) ==
    IF \A i \in DOMAIN s : s[i] # "\n"
    THEN <<s>>
    ELSE LET i == CHOOSE k \in DOMAIN s :
                      s[k] = "\n" /\ \A j \in 1..(k - 1) : s[j] # "\n"
         IN  <<SubSeq(s, 1, i - 1)>> \o SplitLines(SubSeq(s, i + 1, Len(s)))

\* linea.startswith(p)
StartsWith(l, p) == Len(l) >= Len(p) /\ SubSeq(l, 1, Len(p)) = p

\* the lines of a report that satisfy a test
Matching(out, Test(_)) ==
    Cardinality({i \in DOMAIN SplitLines(out) : Test(SplitLines(out)[i])})

IsCreado(l) == StartsWith(l, <<">f">>)

IsActualizado(l) == StartsWith(l, <<">f", ".st">>)

\* v1: startswith(('>', '<')); v2: startswith(('>f', '<f'))
IsTransferido(l) == StartsWith(l, <<">f">>) \/ StartsWith(l, <<"<f">>)

\* v1: '*deleting' in linea
IsBorradoV1(l) == \E i \in DOMAIN l : l[i] = "*deleting"

\* v2: l.startswith('*deleting')
IsBorradoV2(l) == StartsWith(l, <<"*deleting">>)

IsBorrado(l) == IF impl = "v1" THEN IsBorradoV1(l) ELSE IsBorradoV2(l)

\* deletions are counted if self.delete
CuentaBorradosSiempre(del) == TRUE

CuentaBorrados(del) == del

\* counter += n
Assign(c, n) == n

AddTo(c, n) == c + n

\* the variables of the run body and of recreate that are no counters
bstat == <<modo, dry_run, yes, prompts, sync_crypto, items, results,
           checked, rc, crypto_res, links_res, walked, tool_calls, summary>>

rstat == <<rstep, pass, lineas, louts, fs, dirs, faulty, remote_meta,
           local_meta, had_meta, muts, mkdirs, err1>>

\* the statistics object of a real run as it is constructed; the report of
\* the first call of the tool and the delete flag are free
StatInit ==
    /\ LockInit
    /\ BodyIdle
    /\ LinkIdle
    /\ CryptoIdle
    /\ RecIdle
    /\ CapIdle
    /\ CmdIdle
    /\ ListIdle
    /\ ostep = "args"
    /\ overwrite = FALSE
    /\ delete \in BOOLEAN
    /\ use_checksum = FALSE
    /\ bw_limit = ""
    /\ exclusiones = <<>>
    /\ exclusiones_cli = <<>>
    /\ built = NoBuild
    /\ prev = NoBuild
    /\ opts_base = <<>>
    /\ opts_overwrite = <<>>
    /\ opts_delete = <<>>
    /\ tests_pasados = 0
    /\ tests_fallados = 0
    /\ stdout \in Outputs
    /\ calls = 0
    /\ elementos_procesados = 0
    /\ archivos_transferidos = 0
    /\ archivos_borrados = 0
    /\ enlaces_detectados = 0
    /\ creados = 0
    /\ actualizados = 0

\* analizar_salida_rsync on the report at hand
Analizar ==
    /\ creados' = Matching(stdout, IsCreado)
    /\ actualizados' = Matching(stdout, IsActualizado)
    /\ archivos_borrados' =
          IF CuentaBorrados(delete)
          THEN AddTo(archivos_borrados, Matching(stdout, IsBorrado))
          ELSE archivos_borrados
    /\ archivos_transferidos' =
          AddTo(archivos_transferidos, Matching(stdout, IsTransferido))
    /\ elementos_procesados' = AddTo(elementos_procesados, 1)

\* sincronizar_elemento from the call of the tool on: v1 reads the report
\* of a call that returned 0, v2 the report of every call that returned;
\* a failed call and a timeout count one failed item.  The next call
\* prints the same report or nothing.
Sincronizar(o) ==
    /\ calls < MaxCalls
    /\ calls' = calls + 1
    /\ IF o = "ok" \/ (impl = "v2" /\ o = "fail")
       THEN Analizar
       ELSE UNCHANGED <<creados, actualizados, archivos_borrados,
                        archivos_transferidos, elementos_procesados>>
    /\ errores_sincronizacion' =
          IF o = "ok" THEN errores_sincronizacion
          ELSE AddTo(errores_sincronizacion, 1)
    /\ stdout' \in {stdout, <<>>}
    /\ UNCHANGED <<kvars, bstat, enlaces_errores, lvars, rvars, cvars,
                   ovars, mvars, gvars, enlaces_detectados, yvars>>

\* registrar_enlace has written one record
Detectar ==
    /\ calls < MaxCalls
    /\ calls' = calls + 1
    /\ enlaces_detectados' = AddTo(enlaces_detectados, 1)
    /\ UNCHANGED <<kvars, bvars, lvars, rvars, cvars, ovars, mvars, gvars,
                   stdout, elementos_procesados, archivos_transferidos,
                   archivos_borrados, creados, actualizados, yvars>>

\* procesar_linea_enlace has handled one record
Enlace(o) ==
    /\ calls < MaxCalls
    /\ calls' = calls + 1
    /\ enlaces_creados' =
          IF o = "created" THEN AddTo(enlaces_creados, 1)
          ELSE enlaces_creados
    /\ enlaces_existentes' =
          IF o = "existing" THEN AddTo(enlaces_existentes, 1)
          ELSE enlaces_existentes
    /\ enlaces_errores' =
          IF o = "error" THEN AddTo(enlaces_errores, 1)
          ELSE enlaces_errores
    /\ UNCHANGED <<kvars, bstat, errores_sincronizacion, lvars, rstat,
                   cvars, ovars, mvars, gvars, stdout,
                   elementos_procesados, archivos_transferidos,
                   archivos_borrados, enlaces_detectados, creados,
                   actualizados, yvars>>

StatNext ==
    \/ \E o \in {"ok", "fail", "timeout"} : Sincronizar(o)
    \/ Detectar
    \/ \E o \in {"created", "existing", "error"} : Enlace(o)

StatSpec == StatInit /\ [][StatNext]_vars

\* ------------------------------------------------------------- claims
\* a run is between a successful establecer_lock and its own release
Holder(p) == ret[p] /\ pc[p] \in BodySteps

\* a step taken by run p itself (every action of a run moves its pc, its
\* phase or its signal flag)
StepOf(p) == <<pc[p], phase[p], sig[p]>>' # <<pc[p], phase[p], sig[p]>>

\* a step of run p that is neither a signal delivery nor a crash
OwnStep(p) == StepOf(p) /\ sig'[p] = sig[p] /\ pc'[p] # "dead"

\* age of a token file at the current time
Age(f) == now - f.ts

\* run p has left establecer_lock (and was neither signalled nor killed in it)
AcqOver(p) == pc[p] \notin AcqSteps \cup {"idle", "dead"}

\* C1: mutual exclusion -- while no token can be older than lock_timeout
\* (the clock has not passed it) and the holders are alive, at most one run
\* is between a successful acquire and its release, whatever the
\* interleaving of the exists / read / unlink / open / write steps.
MutualExclusion ==
    now <= LOCK_TIMEOUT => Cardinality({p \in Pids : Holder(p)}) <= 1

\* C2: live-lock rejection -- establecer_lock looking at a readable token
\* that is not stale and whose owner is alive rejects and leaves the file as
\* it is; the rejected run never invokes a transfer, exits non-zero, and no
\* step of it (cleanup included) changes the token it was rejected on.
LiveLockRejection ==
    [][\A p \in Pids :
         /\ ( /\ pc[p] = "a_read" /\ OwnStep(p)
              /\ lock.body = "ok" /\ Alive(lock.pid) /\ Age(lock) <= LOCK_TIMEOUT )
            => /\ rej'[p] = lock
               /\ lock' = lock
               /\ exit_code'[p] = 1
               /\ pc'[p] = CleanupEntry
         /\ (rej[p] # NoFile /\ StepOf(p) /\ lock = rej[p]) => lock' = lock
         /\ rej'[p] # NoFile
            => /\ ~ret'[p] /\ ~transferred'[p]
               /\ pc'[p] = "done" => exit_code'[p] > 0
    ]_vars

\* the rejected run has exited and the token it was rejected on is still there
LiveLockRejectionWitness ==
    \E p \in Pids :
        /\ pc[p] = "done" /\ rej[p] # NoFile /\ lock = rej[p]
        /\ how[p] = "locked" /\ exit_code[p] = 1

\* C3: stale-lock reclaim -- establecer_lock looking at a readable token
\* older than lock_timeout goes on to delete it, whether or not its owner is
\* alive, and (no other run's lock operation overlapping) returns True with
\* its own token in a newly created file.
StaleReclaim ==
    [][\A p \in Pids :
         /\ ( /\ pc[p] = "a_read" /\ OwnStep(p)
              /\ lock.body = "ok" /\ Age(lock) > LOCK_TIMEOUT )
            => seen'[p] = "stale" /\ pc'[p] = "a_unlink" /\ lock' = lock
         /\ (pc[p] = "a_unlink" /\ OwnStep(p) /\ seen[p] = "stale")
            => lock' = NoFile /\ pc'[p] = "a_open"
         /\ ( /\ pc[p] \in AcqSteps /\ pc'[p] \notin AcqSteps /\ OwnStep(p)
              /\ seen[p] = "stale" )
            => /\ pc'[p] = "body" /\ ret'[p]
               /\ OwnToken(p)' /\ lock'.ino = p
    ]_vars

\* a stale token whose owner is still alive has been replaced
StaleReclaimWitness ==
    \E p \in Pids :
        /\ pc[p] = "body" /\ seen[p] = "stale" /\ ret[p] /\ OwnToken(p)
        /\ \E q \in Pids \ {p} : Alive(q) /\ ret[q]

\* C4: dead-owner reclaim -- an establecer_lock that found a readable token,
\* not older than lock_timeout, whose owner process is not alive, has
\* succeeded once it is over.
DeadOwnerReclaim ==
    \A p \in Pids : (seen[p] = "dead" /\ AcqOver(p)) => ret[p]

\* C5: lock round-trip -- a run that acquired and released has left no token
\* of its own, and eliminar_lock of run q is about to unlink a readable token
\* only if the token records q itself.
LockRoundTrip ==
    \A q \in Pids :
        /\ (pc[q] = "done" /\ ret[q] /\ ~sig[q]) => ~OwnToken(q)
        /\ (pc[q] = "r_unlink" /\ lock.body = "ok") => lock.pid = q

\* C6: a run removes the token file only through --force-unlock, in
\* establecer_lock after it found the token stale, abandoned or unreadable,
\* or in eliminar_lock when the token on disk records the run itself.
RemovalJustified ==
    [][\A p \in Pids :
         (StepOf(p) /\ Exists(lock) /\ ~Exists(lock'))
            => \/ pc[p] = "idle"
               \/ pc[p] \in {"a_unlink", "a_unlink_c"}
               \/ pc[p] = "r_unlink" /\ OwnToken(p)
    ]_vars

\* C7: corrupt-token recovery -- an establecer_lock that found a file it
\* could not parse, or a record without the owner pid, has succeeded once it
\* is over.
CorruptRecovery ==
    \A p \in Pids : (seen[p] \in {"corrupt", "nopid"} /\ AcqOver(p)) => ret[p]

\* C8: release on every exit path -- a run that acquired the lock and has
\* exited on its own (normal completion, failed precondition, declined
\* confirmation, missing item list, exception) has left no token naming it.
ReleaseOnExit ==
    \A p \in Pids : (pc[p] = "done" /\ ret[p] /\ ~sig[p]) => ~OwnToken(p)

\* a run that acquired, then left because the operator declined, is gone and
\* so is its token
ReleaseOnExitWitness ==
    \E p \in Pids :
        /\ pc[p] = "done" /\ ret[p] /\ ~sig[p] /\ how[p] = "declined"
        /\ exit_code[p] = 0 /\ ~Exists(lock)

\* C9: cancellation -- a run that received SIGINT or SIGTERM, at whatever
\* point, has exited non-zero and left no token naming it.
CancellationCleans ==
    \A p \in Pids :
        (pc[p] = "done" /\ sig[p]) => (exit_code[p] > 0 /\ ~OwnToken(p))

\* C10: cleanup is idempotent -- when the v2 signal handler has run cleanup()
\* and the finally block runs it again, the second run changes neither the
\* token file nor the temporary files.
CleanupIdempotent ==
    [][\A p \in Pids :
         (impl = "v2" /\ sig[p] /\ phase[p] = "finally" /\ StepOf(p))
            => (lock' = lock /\ tmpfile' = tmpfile)
    ]_vars

\* C11: phase ordering -- the transfer tool is invoked and the symlink phase
\* acts only while the run holds the lock it acquired and after the
\* preconditions passed; the symlink phase starts only when every item of
\* the list has been handled; the run's token is removed only when the
\* symlink phase is over, or was never started because the run aborted.
PhaseOrdering ==
    [][/\ (tool_calls' # tool_calls \/ links_res' # links_res \/ walked' # walked)
          => (ret[Runner] /\ checked /\ OwnToken(Runner))
       /\ (links_res = "none" /\ links_res' # "none")
          => Len(results) = Len(items)
       /\ (OwnToken(Runner) /\ ~OwnToken(Runner)')
          => \/ links_res \in {"ok", "error"}
             \/ links_res = "none" /\ how[Runner] # "normal"
    ]_vars

\* a run went through every phase, invoking the tool, and released its token
PhaseOrderingWitness ==
    /\ pc[Runner] = "done" /\ how[Runner] = "normal" /\ ret[Runner]
    /\ tool_calls > 0 /\ links_res = "ok" /\ walked # {}
    /\ Len(results) = Len(items) /\ ~Exists(lock)

\* C12: continue-on-error -- an item whose source does not exist is recorded
\* as failed and the loop goes on with the next item; when the loop is left
\* every item of the list has been handled, in list order; a run whose list
\* had such an item exits non-zero.
ContinueOnError ==
    [][LET n == Len(results) + 1 IN
       /\ ( /\ pc[Runner] = "items" /\ ~items[n].src
            /\ (results' # results \/ pc'[Runner] # "items") )
          => /\ results' = Append(results, "missing")
             /\ rc' = 1
             /\ pc'[Runner] = IF n = Len(items) THEN "crypto" ELSE "items"
       /\ (pc[Runner] = "items" /\ pc'[Runner] \notin {"items", "hung"})
          => /\ Len(results') = Len(items)
             /\ \A i \in DOMAIN items :
                    (results'[i] = "missing") <=> ~items[i].src
       /\ (pc'[Runner] = "done" /\ \E i \in DOMAIN results' : results'[i] = "missing")
          => exit_code'[Runner] > 0
    ]_vars

\* the first item had no source, the two after it were transferred, and the
\* run ended with status 1
ContinueOnErrorWitness ==
    /\ pc[Runner] = "done" /\ how[Runner] = "normal"
    /\ Len(results) = Len(items) /\ results[1] = "missing"
    /\ \A i \in DOMAIN results : i > 1 => results[i] = "ok"
    /\ crypto_res \in {"none", "ok"} /\ links_res = "ok"
    /\ exit_code[Runner] = 1

\* the items of the list that were handled and did not succeed because the
\* source was missing, the tool exited non-zero or the tool timed out
FailedItems == {i \in DOMAIN results : results[i] \in {"missing", "fail", "timeout"}}

\* C13: exit status -- a run that reached its normal end exits 0 exactly when
\* no item failed, the symlink phase reported no error and the secondary
\* phase, if it ran, did not fail; a run whose symlink-error counter is
\* greater than zero exits non-zero.
ExitStatus ==
    (how[Runner] = "normal" /\ exit_code[Runner] # -1)
        => /\ (exit_code[Runner] = 0)
                <=> ( /\ \A i \in DOMAIN results : results[i] = "ok"
                      /\ links_res = "ok"
                      /\ crypto_res \in {"none", "ok"} )
           /\ enlaces_errores > 0 => exit_code[Runner] # 0

\* C14: failed-item accounting -- when the item loop is over the items-failed
\* counter equals the number of items that did not succeed (source missing,
\* tool exit status non-zero, timeout).
FailedItemAccounting ==
    pc[Runner] = "crypto" => errores_sincronizacion = Cardinality(FailedItems)

\* C15: path-traversal rejection -- an item whose string contains '..' or
\* starts with '/' is rejected by the item loop without the tool being
\* invoked on it, and the symlink capture walk does not look at its path.
PathTraversalRejection ==
    /\ \A i \in DOMAIN results : items[i].bad => results[i] = "rejected"
    /\ \A i \in walked : ~items[i].bad

\* C16: per-invocation timeout -- no invocation of the transfer tool (item,
\* secondary phase with its KeePass sub-sync, metadata upload; real or
\* simulate-only) leaves the run waiting for ever on a subprocess that never
\* exits, and an item that timed out is counted as failed.
PerInvocationTimeout ==
    /\ pc[Runner] # "hung"
    /\ \A i \in DOMAIN results : items[i].tool = "hang" => results[i] # "ok"

\* C17: secondary phase -- sincronizar_crypto runs only with the item loop
\* over and the run's token on disk; its failure or timeout adds one to the
\* error counter and the run goes on to the symlink phase; a run whose
\* secondary phase failed or timed out ends non-zero, after the symlink
\* phase and the summary.
SecondaryPhase ==
    [][/\ (crypto_res = "none" /\ crypto_res' # "none")
          => /\ Len(results) = Len(items)
             /\ ret[Runner] /\ OwnToken(Runner)
       /\ (crypto_res = "none" /\ crypto_res' \in {"fail", "timeout"})
          => /\ errores_sincronizacion' = errores_sincronizacion + 1
             /\ pc'[Runner] = "links"
       /\ (pc'[Runner] = "done" /\ crypto_res' \in {"fail", "timeout"})
          => /\ exit_code'[Runner] > 0
             /\ links_res' \in {"ok", "error"}
             /\ summary'
    ]_vars

\* root L is a path prefix of target t
InsideRoot(t, L) == t = L \/ (Len(t) > Len(L) /\ SubSeq(t, 1, Len(L) + 1) = L \o <<"/">>)

\* what follows the first n pieces of t
Rest(t, n) == SubSeq(t, n + 1, Len(t))

\* C18: symlink round-trip -- a link whose raw target lies inside the
\* capturing machine's local root, captured and then recreated on a machine
\* with another local root and user, points to the original target with the
\* old root replaced by the new local root.
SymlinkRoundTrip ==
    (lstep = "recreated" /\ raw # <<>> /\ InsideRoot(raw, local_dir))
        => recreated.target = new_dir \o Rest(raw, Len(local_dir))

\* C19: placeholder expansion -- recreating a record whose target is the
\* home placeholder followed by a suffix s under local root R makes the link
\* R/<relative path> with target R followed by s, whether or not R is
\* /home/<login>.
PlaceholderExpansion ==
    ( /\ lstep = "recreated"
      /\ Len(recorded) >= Len(Placeholder)
      /\ SubSeq(recorded, 1, Len(Placeholder)) = Placeholder
      /\ (Len(recorded) > Len(Placeholder) => recorded[Len(Placeholder) + 1] = "/") )
        => recreated = [at |-> new_dir \o <<"/">> \o ruta,
                        target |-> new_dir \o Rest(recorded, Len(Placeholder))]

\* C20: capture rewrite rules -- the recorded target of raw target t is the
\* placeholder plus the rest when the local root is a path prefix of t; else
\* the placeholder plus what follows /home/<user> when t has that shape;
\* else t itself.  A target in a directory whose name only starts with the
\* local root's string is not rewritten by the first rule.
CaptureRewriteRules ==
    (lstep # "raw" /\ raw # <<>>)
        => /\ lstep # "dropped"
           /\ recorded =
                IF InsideRoot(raw, local_dir)
                THEN Placeholder \o Rest(raw, Len(local_dir))
                ELSE IF Len(raw) > 4 /\ SubSeq(raw, 1, 3) = <<"/", "home", "/">>
                        /\ Len(Split(raw)) > 3
                THEN Placeholder \o <<"/">> \o Join(Rest(Split(raw), 3))
                ELSE raw

\* no two records of the metadata file name the same link path
NoDuplicates ==
    \A i, j \in DOMAIN lineas : lineas[i].ruta = lineas[j].ruta => i = j

\* the run has read the last line it will read
LinesOver == rstep \in {"end", "exit", "done"} /\ had_meta

\* C21: idempotent recreate -- for a metadata file without duplicate link
\* paths, when a non-simulated recreate that raised no error is run once
\* more, the second run makes no symlink or unlink call and counts every
\* record as already correct.
IdempotentRecreate ==
    (pass = 2 /\ ~dry_run /\ ~err1 /\ NoDuplicates)
        => /\ muts = 0
           /\ \A i \in DOMAIN louts : louts[i] = "existing"

\* C22: recreate error isolation -- a record on which unlink or symlink
\* raised adds one to the symlink-error counter, and the lines after it are
\* still read.
RecreateErrorIsolation ==
    /\ enlaces_errores =
           Cardinality({i \in DOMAIN louts : louts[i] \in {"error", "abort"}})
    /\ LinesOver => Len(louts) = Len(lineas)

\* C23: recreate postcondition -- after a non-simulated recreate of a file
\* without duplicate link paths, every record that raised no error has at
\* its path a symlink to its target; and a symlink found with another
\* target, dangling or not, at a path where unlink and symlink succeed, was
\* replaced by one to the record's target.
RecreatePostcondition ==
    [][ (rstep = "lines" /\ ~dry_run /\ NoDuplicates)
          => LET r == lineas[Len(louts) + 1]
             IN  /\ louts'[Len(louts')] \in {"created", "existing"}
                      => fs'[r.ruta] = r.destino
                 /\ fs[r.ruta] = r.destino => fs'[r.ruta] = fs[r.ruta]
                 /\ (IsLink(fs[r.ruta]) /\ r.ruta \notin faulty)
                      => fs'[r.ruta] = r.destino ]_vars

\* C24: simulate-only recreate -- in simulate-only mode no step of recreate
\* makes a symlink, removes one or makes a directory, and every record whose
\* path is not already a symlink to its target adds one to the
\* symlinks-created counter.
SimulateOnlyRecreate ==
    [][ (rstep = "lines" /\ dry_run)
          => LET r == lineas[Len(louts) + 1]
             IN  /\ fs' = fs /\ dirs' = dirs
                 /\ muts' = muts /\ mkdirs' = mkdirs
                 /\ fs[r.ruta] # r.destino
                      => enlaces_creados' = enlaces_creados + 1 ]_vars

SimulateOnlyRecreateWitness ==
    /\ dry_run /\ rstep = "end"
    /\ enlaces_creados > 0
    /\ \E i \in DOMAIN lineas :
         IsLink(fs[lineas[i].ruta]) /\ fs[lineas[i].ruta] # lineas[i].destino
    /\ \E i \in DOMAIN lineas : MissingParent(lineas[i].ruta, dirs)

\* C25: local metadata copy lifecycle -- when the process of a download run
\* has exited, the local copy of the metadata file is gone if recreate read
\* every line in non-simulated mode, and is still there if the run was in
\* simulate-only mode and had fetched or found one.
LocalCopyLifecycle ==
    (rstep = "done" /\ had_meta)
        => /\ (~dry_run /\ Len(louts) = Len(lineas)
                     /\ \A i \in DOMAIN louts : louts[i] # "abort")
                 => ~local_meta
           /\ dry_run => local_meta

\* the symlinks the capture loop came across: every symlink that is an item
\* of the list or lies below one
Discovered ==
    UNION { {n \in {"l", "d/x", "d/s/y"} :
                \/ n = elementos[i]
                \/ elementos[i] = "d" /\ n \in {"d/x", "d/s/y"}
                \/ elementos[i] = "d/s" /\ n = "d/s/y"} :
            i \in DOMAIN elementos }

\* C26: capture uniqueness -- the metadata buffer sent by an upload run has
\* exactly one record for each symlink the loop over the item list came
\* across, and no two of its records have the same relative path.
CaptureUniqueness ==
    uploaded
        => /\ {buffer[i] : i \in DOMAIN buffer} = Discovered
           /\ Len(buffer) = Cardinality(Discovered)
           /\ \A i, j \in DOMAIN buffer : buffer[i] = buffer[j] => i = j

\* the entries of an option list, as a set
OptionSet(o) == {o[i] : i \in DOMAIN o}

\* the patterns an invocation was given, the configuration's first
Patterns == exclusiones \o exclusiones_cli

\* C28: option builder -- the lists built by two invocations that differ in
\* any of the flags overwrite, dry-run, delete, checksum are different as
\* sets; and a built list has one --exclude entry for each pattern given, at
\* its end: those of the configuration in their order, then those of the
\* command line in their order.
OptionBuilder ==
    ostep = "built"
        => /\ (prev # NoBuild /\ prev.flags # built.flags)
                => OptionSet(prev.opts) # OptionSet(built.opts)
           /\ LET o == built.opts
                  n == Len(Patterns)
              IN  /\ Len(o) >= n
                  /\ \A i \in 1..n :
                       o[Len(o) - n + i] = <<"--exclude=", Patterns[i]>>
                  /\ \A i \in 1..(Len(o) - n) : o[i][1] # "--exclude="

OptionBuilderWitness ==
    /\ ostep = "built"
    /\ prev # NoBuild /\ prev.flags # built.flags
    /\ Len(exclusiones) > 1 /\ Len(exclusiones_cli) > 1

\* C29: built-in test 2 -- the list built with every flag off differs in
\* length from the list built after overwrite is turned on, and from the list
\* built after delete is turned on as well.
BuiltInTest2 ==
    ostep \in {"t_del", "t_done"}
        => /\ Len(opts_base) # Len(opts_overwrite)
           /\ Len(opts_base) # Len(opts_delete)

\* s without the separators at its end
RECURSIVE Stripped(_)
Stripped(s) ==
    IF s # <<>> /\ s[Len(s)] = "/" THEN Stripped(SubSeq(s, 1, Len(s) - 1))
    ELSE s

\* C27: directory path pairing -- an upload hands the transfer tool
\* local-root/item as source and remote-root/item as destination, a download
\* the mirror; and when the source of the item is a directory, both strings
\* end with a path separator.
DirectoryPathPairing ==
    \A i \in DOMAIN cmds :
        LET c == cmds[i]
            item == Stripped(lista[i])
            remote == IF backup_dir_mode = "readonly"
                      THEN PCLOUD_BACKUP_READONLY ELSE PCLOUD_BACKUP_COMUN
            loc == LOCAL_DIR \o <<"/">> \o item
            rem == remote \o <<"/">> \o item
        IN  /\ Stripped(c.origen) = IF modo = "subir" THEN loc ELSE rem
            /\ Stripped(c.destino) = IF modo = "subir" THEN rem ELSE loc
            /\ c.dir => /\ c.origen[Len(c.origen)] = "/"
                        /\ c.destino[Len(c.destino)] = "/"

\* the steps of a run, as opposed to those of the built-in tests
RunSteps == {"start", "items", "crypto", "links", "done"}

\* C30: remote root selection -- the remote root is the common area when the
\* backup flag is off and the read-only area when it is on; every path a run
\* builds (item loop, metadata upload, metadata fetch) is under that root,
\* and no step of the run changes the flag.
RemoteRootSelection ==
    /\ [](LET remote == IF backup_dir_mode = "readonly"
                        THEN PCLOUD_BACKUP_READONLY ELSE PCLOUD_BACKUP_COMUN
          IN  /\ roots \subseteq {remote}
              /\ \A i \in DOMAIN cmds :
                   IsPrefix(remote \o <<"/">>,
                            IF modo = "subir" THEN cmds[i].destino
                            ELSE cmds[i].origen)
              /\ meta # <<>> => IsPrefix(remote \o <<"/">>, meta)
              /\ pcloud_dir_comun \in {<<>>, PCLOUD_BACKUP_COMUN}
              /\ pcloud_dir_readonly \in {<<>>, PCLOUD_BACKUP_READONLY})
    /\ [][(mstep \in RunSteps /\ mstep' \in RunSteps)
            => backup_dir_mode' = backup_dir_mode]_vars

RemoteRootSelectionWitness ==
    /\ mstep = "done"
    /\ backup_dir_mode = "readonly"
    /\ Len(cmds) > 1
    /\ meta # <<>>
    /\ roots = {PCLOUD_BACKUP_READONLY}

\* a list that exists and names at least one item
Usable(l) == l.has /\ l.lista # <<>>

\* the list the run is to work on: the explicit items, else the list of this
\* host, else the default list
Wanted ==
    IF items_especificos # <<>> THEN Listed(items_especificos)
    ELSE IF host_lists[hostname].has THEN host_lists[hostname]
    ELSE default_list

\* C31: item resolution -- explicit items are used instead of any configured
\* list; otherwise the list registered for this host name when there is one,
\* else the default list; and a run without a usable list exits non-zero
\* instead of working on an empty list.
ItemResolution ==
    (resolved.done /\ exit_code[Runner] # -1)
        => IF Usable(Wanted)
           THEN resolved.ok /\ resolved.lista = Wanted.lista
           ELSE exit_code[Runner] # 0

\* C32: configuration errors precede locking -- a run whose item list is
\* missing or unusable never opens the token file for writing and never
\* leaves its own token in it.
ConfigErrorsPrecedeLocking ==
    ~Usable(Wanted) => hnd[Runner] = -1 /\ lock.pid # Runner

\* C33: operator confirmation -- in a run that is neither unattended nor
\* simulate-only the transfer tool is invoked and the symlink phase acts only
\* after the operator was asked and agreed; a run the operator declined, or
\* that had no terminal to ask on, has made no transfer, and once it has
\* exited its token is gone; an unattended or simulate-only run never asks.
OperatorConfirmation ==
    /\ (~dry_run /\ ~yes)
          => ( (tool_calls > 0 \/ links_res # "none"
                  \/ pc[Runner] \in {"items", "crypto", "links", "summary"})
                 => (prompts = 1 /\ checked) )
    /\ how[Runner] \in {"declined", "notty"}
          => /\ ~dry_run /\ ~yes
             /\ tool_calls = 0 /\ links_res = "none"
             /\ pc[Runner] = "done" => ~OwnToken(Runner)
    /\ (dry_run \/ yes) => prompts = 0

OperatorConfirmationWitness ==
    /\ pc[Runner] = "done" /\ ret[Runner]
    /\ how[Runner] = "declined" /\ exit_code[Runner] = 0
    /\ prompts = 1 /\ tool_calls = 0

\* C34: report parsing -- with delete off no step changes the files-deleted
\* counter whatever the tool printed; with delete on a parsed report adds
\* its deletion lines to it; an empty report parses to zero created and
\* updated files and adds nothing to the deleted and transferred counters.
ParsedStep == elementos_procesados' # elementos_procesados

ReportParsing ==
    [][ /\ ~delete => archivos_borrados' = archivos_borrados
        /\ ParsedStep /\ delete
              => archivos_borrados' - archivos_borrados
                    = Cardinality({i \in DOMAIN SplitLines(stdout) :
                          IF impl = "v1"
                          THEN "*deleting" \in
                                  {SplitLines(stdout)[i][j] :
                                      j \in DOMAIN SplitLines(stdout)[i]}
                          ELSE Len(SplitLines(stdout)[i]) > 0
                               /\ SplitLines(stdout)[i][1] = "*deleting"})
        /\ ParsedStep /\ stdout = <<>>
              => /\ creados' = 0
                 /\ actualizados' = 0
                 /\ archivos_borrados' = archivos_borrados
                 /\ archivos_transferidos' = archivos_transferidos
      ]_vars

ReportParsingWitness ==
    /\ ~delete
    /\ elementos_procesados = 1
    /\ archivos_borrados = 0
    /\ \E i \in DOMAIN stdout : stdout[i] = "*deleting"

\* C35: statistics monotonicity -- every counter of the statistics is zero
\* when the run starts and no step of the run lowers one.
Counters ==
    <<elementos_procesados, errores_sincronizacion, archivos_transferidos,
      archivos_borrados, enlaces_detectados, enlaces_creados,
      enlaces_existentes, enlaces_errores>>

StatisticsMonotonicity ==
    /\ \A i \in DOMAIN Counters : Counters[i] = 0
    /\ [][\A i \in DOMAIN Counters : Counters'[i] >= Counters[i]]_vars

StatisticsMonotonicityWitness ==
    /\ calls = 2
    /\ archivos_transferidos > 0
    /\ elementos_procesados = 2
    /\ stdout = <<>>

\* C36: no permanent lock-out -- whatever token file the earlier acquires,
\* crashes and releases left behind, an establecer_lock that starts when the
\* file's age exceeds lock_timeout returns True, unless the run itself is
\* killed or signalled meanwhile; no --force-unlock is involved.
LaterAcquire(p) ==
    /\ pc[p] = "a_exists"
    /\ Exists(lock)
    /\ now - lock.ts > LOCK_TIMEOUT

NoPermanentLockOut ==
    \A p \in Pids :
        LaterAcquire(p) ~> (ret[p] \/ sig[p] \/ pc[p] = "dead")

NoPermanentLockOutWitness ==
    \E p \in Pids :
        /\ ret[p] /\ seen[p] = "stale" /\ OwnToken(p)
        /\ \E q \in Pids \ {p} : pc[q] = "dead"

\* the side a path is on
OnRemote(q) == IsPrefix(<<"/", "pcloud", "/">>, q)

OnLocal(q) == IsPrefix(LOCAL_DIR \o <<"/">>, q)

\* the destinations of the invocations of the transfer tool so far
Destinos(whats) ==
    {cmds[i].destino : i \in DOMAIN cmds}
       \cup {crypto_cmds[i].destino :
                i \in {j \in DOMAIN crypto_cmds : crypto_cmds[j].what \in whats}}
       \cup (IF modo = "subir" /\ meta # <<>> THEN {meta} ELSE {})

RECURSIVE Resolved(_)
Resolved(ps) ==
    IF ps = <<>> THEN <<>>
    ELSE LET r == Resolved(SubSeq(ps, 1, Len(ps) - 1))
             c == ps[Len(ps)]
         IN  IF c # <<"..">> THEN Append(r, c)
             ELSE IF Len(r) > 1 THEN SubSeq(r, 1, Len(r) - 1)
             ELSE r

\* path q is below directory root
Below(root, q) ==
    /\ IsPrefix(Resolved(Parts(root)), Resolved(Parts(q)))
    /\ Resolved(Parts(root)) # Resolved(Parts(q))

\* ruta_completa.parent
DirPadre(q) == Str(SubSeq(Parts(q), 1, Len(Parts(q)) - 1))

\* C38: recreate containment -- whatever the record of the metadata file
\* names (a relative path, an absolute one, one with ".."), the symlink that
\* recreate makes or removes is below the local root, and the directory it
\* creates for it is the local root or below it.
RecreateContainment ==
    lstep = "recreated"
       => /\ Below(new_dir, recreated.at)
          /\ \/ DirPadre(recreated.at) = new_dir
             \/ Below(new_dir, DirPadre(recreated.at))

\* C39: recreate accounting -- every line of the metadata file that recreate
\* has gone through (each line of the file is a valid, tab-separated record)
\* has added one to exactly one of the counters created, already-correct,
\* errors: their sum is the number of lines handled so far and, once
\* recreate is over, the number of lines of the file.
RecreateAccounting ==
    LET sum == enlaces_creados + enlaces_existentes + enlaces_errores
    IN  /\ sum = Len(louts)
        /\ (had_meta /\ rstep \in {"end", "exit", "done"})
              => sum = Len(lineas)

====
